---- MODULE Spec2Model ----
(***************************************************************************)
(* Model of the threshold store, its audit log, the /thresholds command    *)
(* handlers and the score extraction / verdict of ChiefXD-Art.             *)
(*                                                                         *)
(* Numbers.  Thresholds and scores are float64 values in the program.      *)
(* Here every such value is an integer count of "ticks" of 1/300, so that  *)
(* 0.25 = 75, 0.50 = 150, 0.60 = 180, 0.75 = 225, 1.00 = 300, and the mean *)
(* of three sampled field values (all multiples of 3 ticks) is exact.      *)
(***************************************************************************)
EXTENDS Integers, Sequences, FiniteSets, TLC

(* ---------------- bounds of the model ---------------- *)
\* number of commands / store calls in one run
MaxCmds == 2
\* number of leaves the sampled moderation document carries
MaxFields == 2
\* database statements that fail in one run
MaxFaults == 1

(* ---------------- program constants ---------------- *)
DefaultNuditySuggestiveThreshold == 225
DefaultNudityExplicitThreshold == 75
DefaultOffensiveThreshold == 75
DefaultAIGeneratedThreshold == 180

PermAdministrator == 8
PermManageGuild == 32
OwnerID == "757284149793914900"

\* the value 1.00 in ticks (upper end of the accepted range of /thresholds set)
One == 3 * 100

Names == {"NuditySuggestive", "NudityExplicit", "Offensive", "AIGenerated"}
\* the order in which ResetAll / ResetAllGuild and the reset-all handler walk the names
NameOrder == <<"NuditySuggestive", "NudityExplicit", "Offensive", "AIGenerated">>

defaultThresholdValue(name) ==
    CASE name = "NuditySuggestive" -> DefaultNuditySuggestiveThreshold
      [] name = "NudityExplicit" -> DefaultNudityExplicitThreshold
      [] name = "Offensive" -> DefaultOffensiveThreshold
      [] name = "AIGenerated" -> DefaultAIGeneratedThreshold
      [] OTHER -> 0

Defaults == [n \in Names |-> defaultThresholdValue(n)]

(* ---------------- sampled inputs ---------------- *)
Guilds == {"g1", "g2"}
\* the value a caller passes to /thresholds set: 0.25, the compiled default of
\* NudityExplicit and Offensive and an override for the other two names
Values == {75}
\* the value passed to the global Set: 0.50, the default of no name
GlobalValues == {150}
\* an out-of-range value (1.25), rejected by the handler's range check
BadValues == {375}
\* spellings a user may type for the threshold option
RawNames == {"NuditySuggestive", "explicit", "offensive_symbols", " AI ", "Bogus"}
\* interaction members: a guild admin (Manage Guild) and a plain member
Members == {[id |-> "u1", permissions |-> 32], [id |-> "u2", permissions |-> 0]}

\* strings.ToLower(strings.TrimSpace(in)) on the sampled spellings
LowerTrim(in) ==
    CASE in = "NuditySuggestive" -> "nuditysuggestive"
      [] in = "explicit" -> "explicit"
      [] in = "offensive_symbols" -> "offensive_symbols"
      [] in = " AI " -> "ai"
      [] in = "Bogus" -> "bogus"
      [] in = "all" -> "all"
      [] in = "ALL" -> "all"
      [] OTHER -> in

canonicalThresholdNameLax(in) ==
    LET s == LowerTrim(in) IN
    CASE s \in {"nuditysuggestive", "suggestive", "nudity_suggestive"} -> [name |-> "NuditySuggestive", ok |-> TRUE]
      [] s \in {"nudityexplicit", "explicit", "nudity_explicit"} -> [name |-> "NudityExplicit", ok |-> TRUE]
      [] s \in {"offensive", "offensive_symbols", "offensivesymbols"} -> [name |-> "Offensive", ok |-> TRUE]
      [] s \in {"aigenerated", "ai", "genai", "ai_generated"} -> [name |-> "AIGenerated", ok |-> TRUE]
      [] OTHER -> [name |-> in, ok |-> TRUE]

canonicalThresholdName(in) ==
    LET s == LowerTrim(in) IN
    CASE s \in {"nuditysuggestive", "suggestive", "nudity_suggestive"} -> [name |-> "NuditySuggestive", ok |-> TRUE]
      [] s \in {"nudityexplicit", "explicit", "nudity_explicit"} -> [name |-> "NudityExplicit", ok |-> TRUE]
      [] s \in {"offensive", "offensive_symbols", "offensivesymbols"} -> [name |-> "Offensive", ok |-> TRUE]
      [] s \in {"aigenerated", "ai", "genai", "ai_generated"} -> [name |-> "AIGenerated", ok |-> TRUE]
      [] OTHER -> [name |-> "", ok |-> FALSE]

IsOwner(userID) == userID = OwnerID

HasBit(v, bit) == (v \div bit) % 2 = 1

\* i.Member of an interaction invoked in a direct message
NilMember == [nil |-> TRUE]

HasAdminContextPermissionAnyMember(m) == m # NilMember

HasAdminContextPermission(m) ==
    /\ m # NilMember
    /\ (HasBit(m.permissions, PermAdministrator) \/ HasBit(m.permissions, PermManageGuild))


(* ---------------- database tables ---------------- *)
EmptyTable == [k \in {} |-> 0]

\* INSERT ... ON CONFLICT / ON DUPLICATE KEY UPDATE
Upsert(tbl, key, v) == [k \in (DOMAIN tbl) \cup {key} |-> IF k = key THEN v ELSE tbl[k]]

NoErr == ""
ErrUnknown == "unknown threshold"
ErrDB == "db"

\* A statement script names the first database statement of a call that fails:
\* at = 0 when none fails, else the index of the failing SetGuild / Set call and
\* which of its statements fails.  Statements after a failure are never run.
NoFail == [at |-> 0, stmt |-> "none"]

(* ---------------- ThresholdsStore ---------------- *)

\* GetGuildThresholds: guild rows first, then the global table fills every name
\* whose value still equals the compiled default; a failed query is skipped.
\* the queries GetGuildThresholds issues: none without a database or for the
\* empty guild id, else one on thresholds_guild and one on thresholds
GetGuildThresholdsQueries(hasDB, guildID) == IF ~hasDB \/ guildID = "" THEN 0 ELSE 2

GetGuildThresholdsAnyGuildID(hasDB, tg, tglob, guildID, guildOk, globOk) ==
    IF ~hasDB THEN Defaults
    ELSE LET afterGuild == [n \in Names |->
                 IF guildOk /\ <<guildID, n>> \in DOMAIN tg THEN tg[<<guildID, n>>] ELSE Defaults[n]]
         IN [n \in Names |->
                 IF globOk /\ n \in DOMAIN tglob /\ afterGuild[n] = Defaults[n]
                 THEN tglob[n] ELSE afterGuild[n]]

GetGuildThresholdsGuildOnly(hasDB, tg, tglob, guildID, guildOk, globOk) ==
    IF ~hasDB \/ guildID = "" THEN Defaults
    ELSE [n \in Names |->
             IF guildOk /\ <<guildID, n>> \in DOMAIN tg THEN tg[<<guildID, n>>] ELSE Defaults[n]]

GetGuildThresholds(hasDB, tg, tglob, guildID, guildOk, globOk) ==
    IF ~hasDB \/ guildID = "" THEN Defaults
    ELSE LET afterGuild == [n \in Names |->
                 IF guildOk /\ <<guildID, n>> \in DOMAIN tg THEN tg[<<guildID, n>>] ELSE Defaults[n]]
         IN [n \in Names |->
                 IF globOk /\ n \in DOMAIN tglob /\ afterGuild[n] = Defaults[n]
                 THEN tglob[n] ELSE afterGuild[n]]

\* SetGuild: no-op without a database; ensureGuildTable, then the upsert.
\* fail is "none", "ddl" (ensureGuildTable fails) or "exec" (the upsert fails).
SetGuildWholeGuild(hasDB, tg, guildID, name, value, fail) ==
    IF ~hasDB THEN [tbl |-> tg, err |-> NoErr]
    ELSE IF fail # "none" THEN [tbl |-> tg, err |-> ErrDB]
    ELSE [tbl |-> [k \in {j \in DOMAIN tg : j[1] # guildID} \cup {<<guildID, name>>} |->
                      IF k = <<guildID, name>> THEN value ELSE tg[k]],
          err |-> NoErr]

\* SetGuild writing the name's row of every guild
SetGuildEveryGuild(hasDB, tg, guildID, name, value, fail) ==
    IF ~hasDB THEN [tbl |-> tg, err |-> NoErr]
    ELSE IF fail # "none" THEN [tbl |-> tg, err |-> ErrDB]
    ELSE [tbl |-> [k \in (DOMAIN tg) \cup {<<g, name>> : g \in Guilds} |->
                      IF k[2] = name THEN value ELSE tg[k]],
          err |-> NoErr]

SetGuild(hasDB, tg, guildID, name, value, fail) ==
    IF ~hasDB THEN [tbl |-> tg, err |-> NoErr]
    ELSE IF fail = "ddl" THEN [tbl |-> tg, err |-> ErrDB]
    ELSE IF fail = "exec" THEN [tbl |-> tg, err |-> ErrDB]
    ELSE [tbl |-> Upsert(tg, <<guildID, name>>, value), err |-> NoErr]

ResetOneGuild(hasDB, tg, guildID, name, fail) ==
    IF name \notin Names THEN [tbl |-> tg, err |-> ErrUnknown]
    ELSE SetGuild(hasDB, tg, guildID, name, defaultThresholdValue(name), fail)

RECURSIVE ResetAllGuildFrom(_, _, _, _, _)
ResetAllGuildFrom(hasDB, tg, guildID, k, script) ==
    IF k > Len(NameOrder) THEN [tbl |-> tg, err |-> NoErr, failedAt |-> 0]
    ELSE LET r == SetGuild(hasDB, tg, guildID, NameOrder[k], defaultThresholdValue(NameOrder[k]),
                           IF script.at = k THEN script.stmt ELSE "none")
         IN IF r.err # NoErr THEN [tbl |-> r.tbl, err |-> r.err, failedAt |-> k]
            ELSE ResetAllGuildFrom(hasDB, r.tbl, guildID, k + 1, script)

ResetAllGuildRollback(hasDB, tg, guildID, script) ==
    LET r == ResetAllGuildFrom(hasDB, tg, guildID, 1, script) IN
    IF r.err # NoErr THEN [r EXCEPT !.tbl = tg] ELSE r

\* ResetAllGuild: four SetGuild calls in NameOrder, returning at the first error.
ResetAllGuild(hasDB, tg, guildID, script) == ResetAllGuildFrom(hasDB, tg, guildID, 1, script)

\* Set (global): updates the in-memory variable, then upserts the global row.
Set(hasDB, m, tglob, name, value, fail) ==
    IF name \notin Names THEN [mem |-> m, tbl |-> tglob, err |-> ErrUnknown]
    ELSE LET m2 == [m EXCEPT ![name] = value] IN
         IF ~hasDB THEN [mem |-> m2, tbl |-> tglob, err |-> NoErr]
         ELSE IF fail = "exec" THEN [mem |-> m2, tbl |-> tglob, err |-> ErrDB]
         ELSE [mem |-> m2, tbl |-> Upsert(tglob, name, value), err |-> NoErr]

ResetOne(hasDB, m, tglob, name, fail) ==
    IF name \notin Names THEN [mem |-> m, tbl |-> tglob, err |-> ErrUnknown]
    ELSE Set(hasDB, m, tglob, name, defaultThresholdValue(name), fail)

RECURSIVE ResetAllFrom(_, _, _, _, _)
ResetAllFrom(hasDB, m, tglob, k, script) ==
    IF k > Len(NameOrder) THEN [mem |-> m, tbl |-> tglob, err |-> NoErr, failedAt |-> 0]
    ELSE LET r == Set(hasDB, m, tglob, NameOrder[k], defaultThresholdValue(NameOrder[k]),
                      IF script.at = k THEN script.stmt ELSE "none")
         IN IF r.err # NoErr THEN [mem |-> r.mem, tbl |-> r.tbl, err |-> r.err, failedAt |-> k]
            ELSE ResetAllFrom(hasDB, r.mem, r.tbl, k + 1, script)

\* ResetAll (global): four Set calls in NameOrder, returning at the first error.
ResetAll(hasDB, m, tglob, script) == ResetAllFrom(hasDB, m, tglob, 1, script)

LogChangeSkipNoop(hasDB, hist, name, oldVal, newVal, userID, guildID, ok) ==
    IF ~hasDB \/ oldVal = newVal THEN [tbl |-> hist, err |-> NoErr]
    ELSE IF ~ok THEN [tbl |-> hist, err |-> ErrDB]
    ELSE [tbl |-> Append(hist, [name |-> name, old_value |-> oldVal, new_value |-> newVal,
                                user_id |-> userID, guild_id |-> guildID]),
          err |-> NoErr]

LogChangeNoGuard(hasDB, hist, name, oldVal, newVal, userID, guildID, ok) ==
    IF ~ok THEN [tbl |-> hist, err |-> ErrDB]
    ELSE [tbl |-> Append(hist, [name |-> name, old_value |-> oldVal, new_value |-> newVal,
                                user_id |-> userID, guild_id |-> guildID]),
          err |-> NoErr]

\* LogChange: no-op without a database, else one INSERT into thresholds_history.
LogChange(hasDB, hist, name, oldVal, newVal, userID, guildID, ok) ==
    IF ~hasDB THEN [tbl |-> hist, err |-> NoErr]
    ELSE IF ~ok THEN [tbl |-> hist, err |-> ErrDB]
    ELSE [tbl |-> Append(hist, [name |-> name, old_value |-> oldVal, new_value |-> newVal,
                                user_id |-> userID, guild_id |-> guildID]),
          err |-> NoErr]

currentGuildThresholdValue(hasDB, tg, tglob, guildID, name) ==
    IF name \in Names THEN GetGuildThresholds(hasDB, tg, tglob, guildID, TRUE, TRUE)[name] ELSE 0


(* ---------------- analysis: JSON documents ---------------- *)
\* A decoded JSON value (Go's any): a float64 or int number, a string, or a map.
\* A Go nil map is NilMap.
NilMap == [t |-> "nil"]
MapOf(f) == [t |-> "map", m |-> f]
EmptyMap == MapOf([k \in {} |-> 0])
Float64(v) == [t |-> "float64", v |-> v]
IntNum(v) == [t |-> "int", v |-> v]
Str(x) == [t |-> "string", s |-> x]

IsMap(v) == v.t = "map"

\* getMap: m[key] when it is present and a map, else nil
getMap(m, key) ==
    IF m = NilMap THEN NilMap
    ELSE IF key \in DOMAIN m.m /\ IsMap(m.m[key]) THEN m.m[key]
    ELSE NilMap

\* getFloat: m[key] when it is a float64, float32, int or int64, else 0
getFloat(m, key) ==
    IF m = NilMap THEN 0
    ELSE IF key \in DOMAIN m.m /\ m.m[key].t \in {"float64", "float32", "int", "int64"} THEN m.m[key].v
    ELSE 0

RECURSIVE maxFloatFrom(_, _, _)
maxFloatFrom(vals, k, maximum) ==
    IF k > Len(vals) THEN maximum
    ELSE maxFloatFrom(vals, k + 1, IF vals[k] > maximum THEN vals[k] ELSE maximum)

\* maxFloat: the largest of vals, starting from 0.0
maxFloat(vals) == maxFloatFrom(vals, 1, 0)

RECURSIVE sumFrom(_, _)
sumFrom(vals, k) == IF k > Len(vals) THEN 0 ELSE vals[k] + sumFrom(vals, k + 1)

meanFloatPresent(vals) ==
    LET present == Cardinality({k \in 1..Len(vals) : vals[k] # 0}) IN
    IF present = 0 THEN 0 ELSE sumFrom(vals, 1) \div present

\* meanFloat: sum / len(vals), 0 for no values
meanFloat(vals) == IF Len(vals) = 0 THEN 0 ELSE sumFrom(vals, 1) \div Len(vals)

mediaURI(doc) ==
    LET media == getMap(doc, "media") IN
    IF media # NilMap /\ "uri" \in DOMAIN media.m /\ media.m["uri"].t = "string"
    THEN media.m["uri"].s ELSE ""

ExtractScoresWithNone(doc) ==
    LET nudity == getMap(doc, "nudity")
        off == getMap(doc, "offensive")
        typ == getMap(doc, "type")
    IN [NudityExplicit |-> maxFloat(<<getFloat(nudity, "sexual_activity"),
                                      getFloat(nudity, "sexual_display"),
                                      getFloat(nudity, "erotica"),
                                      getFloat(nudity, "none")>>),
        NuditySuggestive |-> meanFloat(<<getFloat(nudity, "very_suggestive"),
                                         getFloat(nudity, "suggestive"),
                                         getFloat(nudity, "mildly_suggestive")>>),
        Offensive |-> maxFloat(<<getFloat(off, "nazi"),
                                 getFloat(off, "asian_swastika"),
                                 getFloat(off, "confederate"),
                                 getFloat(off, "supremacist"),
                                 getFloat(off, "terrorist")>>),
        AIGenerated |-> getFloat(typ, "ai_generated")]

\* the score extraction of AnalyseResult
ExtractScores(doc) ==
    LET nudity == getMap(doc, "nudity")
        off == getMap(doc, "offensive")
        typ == getMap(doc, "type")
    IN [NudityExplicit |-> maxFloat(<<getFloat(nudity, "sexual_activity"),
                                      getFloat(nudity, "sexual_display"),
                                      getFloat(nudity, "erotica")>>),
        NuditySuggestive |-> meanFloat(<<getFloat(nudity, "very_suggestive"),
                                         getFloat(nudity, "suggestive"),
                                         getFloat(nudity, "mildly_suggestive")>>),
        Offensive |-> maxFloat(<<getFloat(off, "nazi"),
                                 getFloat(off, "asian_swastika"),
                                 getFloat(off, "confederate"),
                                 getFloat(off, "supremacist"),
                                 getFloat(off, "terrorist")>>),
        AIGenerated |-> getFloat(typ, "ai_generated")]

BuildReasonsStrict(sc, nsThresh, neThresh, offThresh, aiThresh) ==
    (IF sc.NudityExplicit > neThresh THEN <<"nudity_explicit">> ELSE <<>>)
    \o (IF sc.NuditySuggestive > nsThresh THEN <<"nudity_suggestive">> ELSE <<>>)
    \o (IF sc.Offensive > offThresh THEN <<"offensive_symbols">> ELSE <<>>)
    \o (IF sc.AIGenerated > aiThresh THEN <<"ai_generated_high">> ELSE <<>>)

\* the reasons of AnalyseResult: one append per rule whose score >= its threshold
BuildReasons(sc, nsThresh, neThresh, offThresh, aiThresh) ==
    (IF sc.NudityExplicit >= neThresh THEN <<"nudity_explicit">> ELSE <<>>)
    \o (IF sc.NuditySuggestive >= nsThresh THEN <<"nudity_suggestive">> ELSE <<>>)
    \o (IF sc.Offensive >= offThresh THEN <<"offensive_symbols">> ELSE <<>>)
    \o (IF sc.AIGenerated >= aiThresh THEN <<"ai_generated_high">> ELSE <<>>)

AnalyseResult(doc, nsThresh, neThresh, offThresh, aiThresh) ==
    LET sc == ExtractScores(doc)
        reasons == BuildReasons(sc, nsThresh, neThresh, offThresh, aiThresh)
    IN [done |-> TRUE, Allowed |-> Len(reasons) = 0, Reasons |-> reasons,
        Scores |-> sc, MediaURI |-> mediaURI(doc)]

(* ---------------- analysis: sampled documents ---------------- *)
CategoryFields ==
    [nudity |-> {"sexual_activity", "sexual_display", "erotica",
                 "very_suggestive", "suggestive", "mildly_suggestive", "none"},
     offensive |-> {"nazi", "asian_swastika", "confederate", "supremacist", "terrorist"},
     type |-> {"ai_generated"},
     media |-> {"uri"}]
Categories == DOMAIN CategoryFields

\* leaves of a sampled document: 0.25, 0.75 (float64), the integer 1, a string
Leaves == {Float64(75), Float64(225), IntNum(One), Str("x")}

\* what one slot writes: a leaf under category.field, a category that is no map, or nothing
Slots ==
    {[kind |-> "leaf", cat |-> c, field |-> f, leaf |-> l] :
        c \in Categories, f \in UNION {CategoryFields[x] : x \in Categories}, l \in Leaves}
    \cup {[kind |-> "notmap", cat |-> c, field |-> "", leaf |-> Str("x")] : c \in Categories}
    \cup {[kind |-> "none", cat |-> "", field |-> "", leaf |-> Str("x")]}

ValidSlot(sl) == sl.kind # "leaf" \/ sl.field \in CategoryFields[sl.cat]

PutKey(f, key, v) == [k \in (DOMAIN f) \cup {key} |-> IF k = key THEN v ELSE f[k]]

\* the document after one more key is decoded (a later key replaces an earlier one)
Put(doc, sl) ==
    IF sl.kind = "none" THEN doc
    ELSE IF sl.kind = "notmap" THEN MapOf(PutKey(doc.m, sl.cat, sl.leaf))
    ELSE LET cur == getMap(doc, sl.cat)
             base == IF cur = NilMap THEN EmptyMap ELSE cur
         IN MapOf(PutKey(doc.m, sl.cat, MapOf(PutKey(base.m, sl.field, sl.leaf))))

RECURSIVE MkDocFrom(_, _, _)
MkDocFrom(doc, s, k) == IF k > Len(s) THEN doc ELSE MkDocFrom(Put(doc, s[k]), s, k + 1)

Docs == {MkDocFrom(EmptyMap, s, 1) : s \in [1..MaxFields -> {sl \in Slots : ValidSlot(sl)}]}

\* thresholds handed to AnalyseResult: the compiled defaults, all 0.25, all 0.75
ThresholdChoices == {Defaults} \cup {[n \in Names |-> v] : v \in {75, 225}}

(* ---------------- state ---------------- *)
VARIABLES
    db,                  \* ps.db != nil: a database is configured
    mem,                 \* the package-level active thresholds (NuditySuggestiveThreshold, ...)
    thresholds,          \* table thresholds: name -> value
    thresholds_guild,    \* table thresholds_guild: <<guild_id, name>> -> value
    thresholds_history,  \* table thresholds_history, in insertion order
    last,                \* the command handled last: its input, reply and what a resolve saw around it
    prev,                \* the command handled before last
    ncmds,               \* commands handled so far
    nfaults,             \* database statements that failed so far
    out,                 \* the moderation API document handed to AnalyseResult
    thr,                 \* the thresholds handed to AnalyseResult
    analysis,            \* the Analysis it returned
    created_at,          \* column created_at of thresholds_history, row by row
    now,                 \* the database clock (NOW() / CURRENT_TIMESTAMP)
    changes,             \* what the last /thresholds history command got and replied
    permissions,         \* table permissions: set of <<guild_id, role_id>>
    guildRoles,          \* ps.guildRoles: guild -> set of roles (JSON fallback)
    file,                \* the JSON file of the whitelist: guild -> sorted roles
    tmpfile,             \* the file path + ".tmp" that SaveToFile writes before renaming
    perm,                \* the /permissions command handled last: its input and reply
    invoker,             \* the member (in a direct message: the user) who invoked the last command
    calls                \* store calls in flight, one per goroutine: statement reached, result

storeVars == <<db, mem, thresholds, thresholds_guild, thresholds_history, last, prev, ncmds, nfaults>>
analysisVars == <<out, thr, analysis>>
historyVars == <<created_at, now, changes>>
permVars == <<permissions, guildRoles, file, tmpfile, perm>>
vars == <<db, mem, thresholds, thresholds_guild, thresholds_history, last, prev, ncmds, nfaults,
          out, thr, analysis, created_at, now, changes, permissions, guildRoles, file, tmpfile, perm, invoker, calls>>

NoCmd == [cmd |-> "none", guild |-> "", name |-> "", value |-> 0, resp |-> "",
          before |-> Defaults, after |-> Defaults, failedAt |-> 0, logFails |-> 0]

\* what /thresholds list would show for the guild (both queries succeeding)
Effective(tg, tglob, g) == GetGuildThresholds(db, tg, tglob, g, TRUE, TRUE)

B2N(b) == IF b THEN 0 ELSE 1
CountFalse(f) == Cardinality({k \in DOMAIN f : ~f[k]})

\* outcomes a database statement can have: it can fail only when a database is
\* configured and the run's failure budget is not used up
OkChoices == IF db /\ nfaults < MaxFaults THEN BOOLEAN ELSE {TRUE}
SetFails == IF db /\ nfaults < MaxFaults THEN {"none", "ddl", "exec"} ELSE {"none"}
GuildScripts ==
    IF db /\ nfaults < MaxFaults
    THEN {NoFail} \cup {[at |-> k, stmt |-> f] : k \in 1..Len(NameOrder), f \in {"ddl", "exec"}}
    ELSE {NoFail}
GlobalFails == IF db /\ nfaults < MaxFaults THEN {"none", "exec"} ELSE {"none"}
GlobalScripts ==
    IF db /\ nfaults < MaxFaults
    THEN {NoFail} \cup {[at |-> k, stmt |-> "exec"] : k \in 1..Len(NameOrder)}
    ELSE {NoFail}

RECURSIVE LogAllFrom(_, _, _, _, _, _)
\* the four LogChange calls of the reset-all handler; each error is discarded
LogAllFrom(hist, k, old, userID, guildID, logOks) ==
    IF k > Len(NameOrder) THEN hist
    ELSE LogAllFrom(LogChange(db, hist, NameOrder[k], old[NameOrder[k]],
                              defaultThresholdValue(NameOrder[k]), userID, guildID, logOks[k]).tbl,
                    k + 1, old, userID, guildID, logOks)

\* created_at DEFAULT NOW(): every row inserted by a statement gets the clock's value
Stamp(stamps, rows, clock) == stamps \o [k \in 1..(rows - Len(stamps)) |-> clock]

NoChanges == [done |-> FALSE]

\* a path at which no file exists
NoFile == [exists |-> FALSE]

NoPerm == [done |-> FALSE]

\* no command has been invoked, or the last call came from no interaction
NoInvoker == [none |-> TRUE]

\* goroutines that may be inside a store call at the same time
MaxProcs == 2
Procs == 1..MaxProcs

IdleCall == [op |-> "none", guildID |-> "", name |-> "", value |-> 0,
             pc |-> 0, ret |-> FALSE, err |-> NoErr, wrote |-> {}]

NoCalls == [p \in Procs |-> IdleCall]

NoDoc == EmptyMap
NoAnalysis == [done |-> FALSE]

StoreInit ==
    /\ db \in BOOLEAN
    /\ mem = Defaults
    /\ thresholds = EmptyTable
    /\ thresholds_guild = EmptyTable
    /\ thresholds_history = <<>>
    /\ last = NoCmd
    /\ prev = NoCmd
    /\ ncmds = 0
    /\ nfaults = 0
    /\ created_at = <<>>
    /\ now = 0
    /\ changes = NoChanges
    /\ permissions = {}
    /\ guildRoles = EmptyTable
    /\ file = EmptyTable
    /\ tmpfile = NoFile
    /\ perm = NoPerm
    /\ calls = NoCalls
    /\ invoker = NoInvoker

Init ==
    /\ StoreInit
    /\ out = NoDoc
    /\ thr = Defaults
    /\ analysis = NoAnalysis

\* bookkeeping common to every command
Done(rec, faults) ==
    /\ nfaults + faults <= MaxFaults
    /\ nfaults' = nfaults + faults
    /\ ncmds' = ncmds + 1
    /\ prev' = last
    /\ last' = rec
    /\ created_at' = Stamp(created_at, Len(thresholds_history'), now)
    /\ UNCHANGED <<db, out, thr, analysis, now, changes>>
    /\ UNCHANGED permVars
    /\ UNCHANGED calls

\* a command answered without touching the store
\* (name is the spelling that was not recognised, "" for the other refusals)
Reject(cmd, name, resp) ==
    /\ UNCHANGED <<mem, thresholds, thresholds_guild, thresholds_history>>
    /\ Done([NoCmd EXCEPT !.cmd = cmd, !.name = name, !.resp = resp], 0)

WriteFailedLogged(cmd, g, name, val, rf) ==
    /\ UNCHANGED <<mem, thresholds, thresholds_guild>>
    /\ thresholds_history' = Append(thresholds_history,
            [name |-> name, old_value |-> Effective(thresholds_guild, thresholds, g)[name],
             new_value |-> val, user_id |-> "", guild_id |-> g])
    /\ Done([cmd |-> cmd, guild |-> g, name |-> name, value |-> val, resp |-> "failed",
             before |-> Effective(thresholds_guild, thresholds, g),
             after |-> Effective(thresholds_guild, thresholds, g),
             failedAt |-> 1, logFails |-> 0], rf + 1)

\* the write of a set / single reset failed: nothing is stored, nothing is logged
WriteFailed(cmd, g, name, val, rf) ==
    /\ UNCHANGED <<mem, thresholds, thresholds_guild, thresholds_history>>
    /\ Done([cmd |-> cmd, guild |-> g, name |-> name, value |-> val, resp |-> "failed",
             before |-> Effective(thresholds_guild, thresholds, g),
             after |-> Effective(thresholds_guild, thresholds, g),
             failedAt |-> 1, logFails |-> 0], rf + 1)

WrittenRollback(cmd, g, name, val, w, l, rf, lf) ==
    /\ thresholds_guild' = (IF lf > 0 THEN thresholds_guild ELSE w.tbl)
    /\ thresholds_history' = l.tbl
    /\ UNCHANGED <<mem, thresholds>>
    /\ Done([cmd |-> cmd, guild |-> g, name |-> name, value |-> val, resp |-> "ok",
             before |-> Effective(thresholds_guild, thresholds, g),
             after |-> Effective(w.tbl, thresholds, g),
             failedAt |-> 0, logFails |-> lf], rf + lf)

\* the write succeeded: the handler calls LogChange, discards its error and replies
Written(cmd, g, name, val, w, l, rf, lf) ==
    /\ thresholds_guild' = w.tbl
    /\ thresholds_history' = l.tbl
    /\ UNCHANGED <<mem, thresholds>>
    /\ Done([cmd |-> cmd, guild |-> g, name |-> name, value |-> val, resp |-> "ok",
             before |-> Effective(thresholds_guild, thresholds, g),
             after |-> Effective(w.tbl, thresholds, g),
             failedAt |-> 0, logFails |-> lf], rf + lf)

(* ---------------- /thresholds set ---------------- *)
HandleSet ==
    /\ ncmds < MaxCmds
    /\ \E m \in Members :
         /\ invoker' = m
         /\ IF ~(IsOwner(m.id) \/ HasAdminContextPermission(m)) THEN Reject("set", "", "denied")
            ELSE \E val \in Values \cup BadValues :
              IF val < 0 \/ val > One THEN Reject("set", "", "badvalue")
              ELSE \E raw \in RawNames :
                LET c == canonicalThresholdName(raw) IN
                IF ~c.ok THEN Reject("set", raw, "unknown")
                ELSE \E g \in Guilds, guildOk \in OkChoices, globOk \in OkChoices, fail \in SetFails :
                  LET old == GetGuildThresholds(db, thresholds_guild, thresholds, g, guildOk, globOk)
                      w == SetGuild(db, thresholds_guild, g, c.name, val, fail)
                      rf == B2N(guildOk) + B2N(globOk)
                  IN IF w.err # NoErr THEN WriteFailed("set", g, c.name, val, rf)
                     ELSE \E logOk \in OkChoices :
                            Written("set", g, c.name, val, w,
                                    LogChange(db, thresholds_history, c.name, old[c.name], val, m.id, g, logOk),
                                    rf, B2N(logOk))

(* ---------------- /thresholds reset <name> ---------------- *)
EqualFoldAll(raw) == LowerTrim(raw) = "all"

HandleResetOne ==
    /\ ncmds < MaxCmds
    /\ \E m \in Members :
         /\ invoker' = m
         /\ IF ~(IsOwner(m.id) \/ HasAdminContextPermission(m)) THEN Reject("reset", "", "denied")
            ELSE \E raw \in RawNames :
              LET c == canonicalThresholdName(raw) IN
              /\ ~EqualFoldAll(raw)
              /\ IF ~c.ok THEN Reject("reset", raw, "unknown")
                 ELSE \E g \in Guilds, guildOk \in OkChoices, globOk \in OkChoices, fail \in SetFails :
                   LET old == GetGuildThresholds(db, thresholds_guild, thresholds, g, guildOk, globOk)
                       w == ResetOneGuild(db, thresholds_guild, g, c.name, fail)
                       rf == B2N(guildOk) + B2N(globOk)
                   IN IF w.err # NoErr THEN WriteFailed("reset", g, c.name, 0, rf)
                      ELSE \E logOk \in OkChoices :
                             Written("reset", g, c.name, 0, w,
                                     LogChange(db, thresholds_history, c.name, old[c.name],
                                               defaultThresholdValue(c.name), m.id, g, logOk),
                                     rf, B2N(logOk))

(* ---------------- /thresholds reset all ---------------- *)
HandleResetAll ==
    /\ ncmds < MaxCmds
    /\ \E m \in Members :
         /\ invoker' = m
         /\ IF ~(IsOwner(m.id) \/ HasAdminContextPermission(m)) THEN Reject("resetall", "", "denied")
            ELSE \E raw \in {"ALL"}, g \in Guilds, guildOk \in OkChoices, globOk \in OkChoices,
                    script \in GuildScripts :
              LET old == GetGuildThresholds(db, thresholds_guild, thresholds, g, guildOk, globOk)
                  w == ResetAllGuild(db, thresholds_guild, g, script)
                  rf == B2N(guildOk) + B2N(globOk)
              IN
              /\ EqualFoldAll(raw)
              /\ IF w.err # NoErr
                 THEN /\ thresholds_guild' = w.tbl
                      /\ UNCHANGED <<mem, thresholds, thresholds_history>>
                      /\ Done([cmd |-> "resetall", guild |-> g, name |-> "", value |-> 0, resp |-> "failed",
                               before |-> Effective(thresholds_guild, thresholds, g),
                               after |-> Effective(w.tbl, thresholds, g),
                               failedAt |-> w.failedAt, logFails |-> 0], rf + 1)
                 ELSE \E logOks \in [1..Len(NameOrder) -> OkChoices] :
                      /\ thresholds_guild' = w.tbl
                      /\ thresholds_history' = LogAllFrom(thresholds_history, 1, old, m.id, g, logOks)
                      /\ UNCHANGED <<mem, thresholds>>
                      /\ Done([cmd |-> "resetall", guild |-> g, name |-> "", value |-> 0, resp |-> "ok",
                               before |-> Effective(thresholds_guild, thresholds, g),
                               after |-> Effective(w.tbl, thresholds, g),
                               failedAt |-> 0, logFails |-> CountFalse(logOks)],
                              rf + CountFalse(logOks))

(* ---------------- the global store calls (earlier /thresholds handler) ---------------- *)
GlobalRec(cmd, name, value, r, failedAt) ==
    [cmd |-> cmd, guild |-> "", name |-> name, value |-> value,
     resp |-> IF r.err = NoErr THEN "ok" ELSE IF r.err = ErrUnknown THEN "unknown" ELSE "failed",
     before |-> Defaults, after |-> Defaults, failedAt |-> failedAt, logFails |-> 0]

StoreSet ==
    /\ ncmds < MaxCmds
    /\ invoker' = NoInvoker
    /\ \E name \in Names \cup {"Bogus"}, val \in GlobalValues :
       \E fail \in (IF name \in Names THEN GlobalFails ELSE {"none"}) :
         LET r == Set(db, mem, thresholds, name, val, fail) IN
         /\ mem' = r.mem
         /\ thresholds' = r.tbl
         /\ UNCHANGED <<thresholds_guild, thresholds_history>>
         /\ Done(GlobalRec("Set", name, val, r, B2N(fail = "none")), B2N(fail = "none"))

StoreResetAll ==
    /\ ncmds < MaxCmds
    /\ invoker' = NoInvoker
    /\ \E script \in GlobalScripts :
         LET r == ResetAll(db, mem, thresholds, script) IN
         /\ mem' = r.mem
         /\ thresholds' = r.tbl
         /\ UNCHANGED <<thresholds_guild, thresholds_history>>
         /\ Done(GlobalRec("ResetAll", "", 0, r, r.failedAt), B2N(script = NoFail))

(* ---------------- next-state relation ---------------- *)
Next ==
    \/ HandleSet
    \/ HandleResetOne
    \/ HandleResetAll
    \/ StoreSet
    \/ StoreResetAll

Spec == Init /\ [][Next]_vars

(* ---------------- the analysis on its own ---------------- *)
AnalysisInit ==
    /\ StoreInit
    /\ out \in Docs
    /\ thr \in ThresholdChoices
    /\ analysis = NoAnalysis

Analyse ==
    /\ ~analysis.done
    /\ analysis' = AnalyseResult(out, thr["NuditySuggestive"], thr["NudityExplicit"],
                                 thr["Offensive"], thr["AIGenerated"])
    /\ UNCHANGED <<out, thr>>
    /\ UNCHANGED storeVars
    /\ UNCHANGED historyVars
    /\ UNCHANGED permVars
    /\ UNCHANGED calls
    /\ UNCHANGED invoker

AnalysisNext == Analyse

SpecAnalysis == AnalysisInit /\ [][AnalysisNext]_vars

(* ======================= threshold resolution ======================= *)

\* the resolution the documentation describes: the guild's row if it exists, else
\* the global row if it exists, else the compiled default
Documented(tg, tglob, g, n) ==
    IF <<g, n>> \in DOMAIN tg THEN tg[<<g, n>>]
    ELSE IF n \in DOMAIN tglob THEN tglob[n]
    ELSE Defaults[n]

\* C1: with a database, GetGuildThresholds returns for every guild and every name
\* the guild's row if one exists, else the global row if one exists, else the
\* compiled default; a global row never replaces an existing guild row, also when
\* that row holds the compiled default.
C1_ResolutionOrder ==
    db => \A g \in Guilds, n \in Names :
            GetGuildThresholds(db, thresholds_guild, thresholds, g, TRUE, TRUE)[n]
                = Documented(thresholds_guild, thresholds, g, n)

\* C2: right after a set command that wrote the guild's row, a resolve of that
\* guild returns the value set for that name and, for the other three names, what
\* it returned before the set.
C2_SetRoundTrip ==
    (db /\ last.cmd = "set" /\ last.resp = "ok") =>
        /\ last.after[last.name] = last.value
        /\ \A n \in Names \ {last.name} : last.after[n] = last.before[n]

\* C6: right after a reset command that wrote the guild's row(s), a resolve of that
\* guild returns the compiled default for the name reset (for all four names after
\* reset all).
C6_ResetYieldsDefault ==
    /\ (db /\ last.cmd = "reset" /\ last.resp = "ok") => last.after[last.name] = Defaults[last.name]
    /\ (db /\ last.cmd = "resetall" /\ last.resp = "ok") => \A n \in Names : last.after[n] = Defaults[n]

(* ======================= reset, validation, audit ======================= *)

\* the last two commands were the same single-name reset, both written and logged
ResetTwice ==
    /\ db
    /\ last.cmd = "reset" /\ last.resp = "ok" /\ last.logFails = 0
    /\ prev.cmd = "reset" /\ prev.resp = "ok" /\ prev.logFails = 0
    /\ last.guild = prev.guild /\ last.name = prev.name

C8_UnknownNameRejected ==
    [][(/\ ncmds' = ncmds + 1
        /\ last'.cmd \in {"set", "reset", "Set"}
        /\ last'.name # "" /\ last'.name \notin Names)
       => (/\ last'.resp = "unknown"
           /\ UNCHANGED <<mem, thresholds, thresholds_guild, thresholds_history>>)]_vars

\* C8 witness: an unknown name was refused while rows and audit records exist
C8_Witness ==
    /\ last.resp = "unknown" /\ last.name = "Bogus"
    /\ thresholds_guild # EmptyTable
    /\ thresholds_history # <<>>

\* C9 as claimed: after a reset all that failed at one name, the guild's rows of
\* all the other names hold their compiled defaults.
C9_ResetAllIndependent ==
    (db /\ last.cmd = "resetall" /\ last.resp = "failed") =>
        \A k \in 1..Len(NameOrder) :
            k # last.failedAt =>
                /\ <<last.guild, NameOrder[k]>> \in DOMAIN thresholds_guild
                /\ thresholds_guild[<<last.guild, NameOrder[k]>>] = Defaults[NameOrder[k]]

SameRow(t1, t2, key) ==
    /\ (key \in DOMAIN t1) = (key \in DOMAIN t2)
    /\ key \in DOMAIN t1 => t1[key] = t2[key]

\* C9 amended: a reset all (guild or global) that fails at the k-th name has reset
\* the names before it, which stay reset, and has not written the k-th name's row
\* nor any later name: their rows are as before the command.  (The global Set had
\* already updated the k-th in-memory value when its upsert failed.)
C9_ResetAllStopsAtFailure ==
    [][(/\ ncmds' = ncmds + 1
        /\ last'.cmd \in {"resetall", "ResetAll"}
        /\ last'.resp = "failed")
       => \A k \in 1..Len(NameOrder) :
            LET n == NameOrder[k] IN
            IF last'.cmd = "resetall"
            THEN /\ k < last'.failedAt =>
                      /\ <<last'.guild, n>> \in DOMAIN thresholds_guild'
                      /\ thresholds_guild'[<<last'.guild, n>>] = Defaults[n]
                 /\ k >= last'.failedAt =>
                      SameRow(thresholds_guild', thresholds_guild, <<last'.guild, n>>)
            ELSE /\ k < last'.failedAt =>
                      /\ n \in DOMAIN thresholds' /\ thresholds'[n] = Defaults[n]
                      /\ mem'[n] = Defaults[n]
                 /\ k = last'.failedAt => mem'[n] = Defaults[n]
                 /\ k >= last'.failedAt => SameRow(thresholds', thresholds, n)
                 /\ k > last'.failedAt => mem'[n] = mem[n]]_vars

\* C9 witness: a reset all failed at its third name, after a set of the fourth
C9_Witness ==
    /\ last.cmd = "resetall" /\ last.resp = "failed" /\ last.failedAt = 3
    /\ <<last.guild, "NuditySuggestive">> \in DOMAIN thresholds_guild
    /\ <<last.guild, "Offensive">> \notin DOMAIN thresholds_guild
    /\ <<last.guild, "AIGenerated">> \in DOMAIN thresholds_guild
    /\ thresholds_guild[<<last.guild, "AIGenerated">>] # Defaults["AIGenerated"]

IsPrefix(a, b) == Len(a) <= Len(b) /\ SubSeq(b, 1, Len(a)) = a

\* C10 as claimed: with a database, existing audit records are never changed,
\* every set or single-name reset command that succeeds appends exactly one
\* record and every reset all that succeeds exactly four; a command whose write
\* fails, a refused command and a bare store write append none.
C10_OneRecordPerCommand ==
    [][(db /\ ncmds' = ncmds + 1) =>
          LET added == Len(thresholds_history') - Len(thresholds_history)
              c == last'
          IN /\ IsPrefix(thresholds_history, thresholds_history')
             /\ (c.resp # "ok" \/ c.cmd \in {"Set", "ResetAll"}) => added = 0
             /\ (c.resp = "ok" /\ c.cmd \in {"set", "reset"}) => added = 1
             /\ (c.resp = "ok" /\ c.cmd = "resetall") => added = Len(NameOrder)]_vars

\* C10 amended: every step leaves the existing audit records in place and only
\* appends.  The command writes the record after the store write and ignores the
\* insert's error: with a database, a set or single reset that succeeds appends
\* one record if its insert succeeds and none if it fails; a reset all appends
\* one record per insert that succeeds, four in the order of the names when none
\* fails.  A command whose write fails, a refused command, a store write on its
\* own (the global Set and ResetAll) and every command without a database append
\* none.
C10_AuditBestEffort ==
    [][/\ IsPrefix(thresholds_history, thresholds_history')
       /\ ncmds' = ncmds + 1 =>
            LET added == Len(thresholds_history') - Len(thresholds_history)
                c == last'
            IN /\ (~db \/ c.resp # "ok" \/ c.cmd \in {"Set", "ResetAll"}) => added = 0
               /\ (db /\ c.resp = "ok" /\ c.cmd \in {"set", "reset"}) =>
                      /\ added = 1 - c.logFails
                      /\ added = 1 =>
                           /\ thresholds_history'[Len(thresholds_history')].name = c.name
                           /\ thresholds_history'[Len(thresholds_history')].guild_id = c.guild
                           /\ thresholds_history'[Len(thresholds_history')].new_value =
                                 (IF c.cmd = "set" THEN c.value ELSE Defaults[c.name])
               /\ (db /\ c.resp = "ok" /\ c.cmd = "resetall") =>
                      /\ added = Len(NameOrder) - c.logFails
                      /\ added = Len(NameOrder) =>
                           \A k \in 1..Len(NameOrder) :
                              /\ thresholds_history'[Len(thresholds_history) + k].name = NameOrder[k]
                              /\ thresholds_history'[Len(thresholds_history) + k].new_value =
                                    Defaults[NameOrder[k]]]_vars

\* C10 witness: a logged set, then a set that succeeded though its audit insert
\* failed: still one record
C10_Witness ==
    /\ db
    /\ last.cmd = "set" /\ last.resp = "ok" /\ last.logFails = 1
    /\ prev.cmd = "set" /\ prev.resp = "ok" /\ prev.logFails = 0
    /\ Len(thresholds_history) = 1

(* ======================= analysis ======================= *)

RuleOrder == <<"nudity_explicit", "nudity_suggestive", "offensive_symbols", "ai_generated_high">>

\* the score and the threshold a reason tag compares
RuleScore(tag) ==
    IF tag = "nudity_explicit" THEN analysis.Scores.NudityExplicit
    ELSE IF tag = "nudity_suggestive" THEN analysis.Scores.NuditySuggestive
    ELSE IF tag = "offensive_symbols" THEN analysis.Scores.Offensive
    ELSE analysis.Scores.AIGenerated

RuleThreshold(tag) ==
    IF tag = "nudity_explicit" THEN thr["NudityExplicit"]
    ELSE IF tag = "nudity_suggestive" THEN thr["NuditySuggestive"]
    ELSE IF tag = "offensive_symbols" THEN thr["Offensive"]
    ELSE thr["AIGenerated"]

Violated(tag) == RuleScore(tag) >= RuleThreshold(tag)

\* C3: the reasons of a verdict are exactly the tags of the rules whose score is
\* at least the rule's threshold (a score equal to the threshold counts), in the
\* order nudity_explicit, nudity_suggestive, offensive_symbols,
\* ai_generated_high, and Allowed holds exactly when there is no reason.
C3_VerdictReasons ==
    analysis.done =>
        /\ analysis.Reasons = SelectSeq(RuleOrder, Violated)
        /\ analysis.Allowed <=> (analysis.Reasons = <<>>)

\* C3 witness: a score equal to its threshold is among two or more reasons,
\* while another rule is not violated
C3_Witness ==
    /\ analysis.done
    /\ \E k \in 1..Len(RuleOrder) : RuleScore(RuleOrder[k]) = RuleThreshold(RuleOrder[k])
    /\ Len(analysis.Reasons) >= 2
    /\ Len(analysis.Reasons) < Len(RuleOrder)

\* the number under category.field of the document, 0 when the category is
\* missing or no object, the field is missing, or the field is no number
FieldOrZero(doc, cat, field) ==
    IF cat \notin DOMAIN doc.m THEN 0
    ELSE IF doc.m[cat].t # "map" THEN 0
    ELSE IF field \notin DOMAIN doc.m[cat].m THEN 0
    ELSE IF doc.m[cat].m[field].t \in {"float64", "float32", "int", "int64"}
         THEN doc.m[cat].m[field].v
    ELSE 0

SetMax(S) == CHOOSE x \in S : \A y \in S : y <= x

ExplicitFields == {"sexual_activity", "sexual_display", "erotica"}
SuggestiveFields == {"very_suggestive", "suggestive", "mildly_suggestive"}
OffensiveFields == {"nazi", "asian_swastika", "confederate", "supremacist", "terrorist"}

LacksAll(doc) ==
    /\ \A f \in ExplicitFields \cup SuggestiveFields :
          ~("nudity" \in DOMAIN doc.m /\ doc.m["nudity"].t = "map"
            /\ f \in DOMAIN doc.m["nudity"].m)
    /\ \A f \in OffensiveFields :
          ~("offensive" \in DOMAIN doc.m /\ doc.m["offensive"].t = "map"
            /\ f \in DOMAIN doc.m["offensive"].m)
    /\ ~("type" \in DOMAIN doc.m /\ doc.m["type"].t = "map"
         /\ "ai_generated" \in DOMAIN doc.m["type"].m)

\* C5: a document with none of the moderation fields gets four zero scores, and
\* with the compiled default thresholds its verdict is Allowed with no reasons.
C5_EmptyDocAllowed ==
    (analysis.done /\ LacksAll(out)) =>
        /\ \A n \in Names : analysis.Scores[n] = 0
        /\ thr = Defaults => (analysis.Allowed /\ analysis.Reasons = <<>>)

\* C5 witness: a document that has a nudity object, but no moderation field in
\* it, analysed with the default thresholds
C5_Witness ==
    /\ analysis.done
    /\ LacksAll(out)
    /\ thr = Defaults
    /\ "nudity" \in DOMAIN out.m /\ out.m["nudity"].t = "map"
    /\ out.m["nudity"].m # EmptyMap.m

(* ======================= audit failures ======================= *)

\* C11: when a set or reset wrote the guild's row(s) and the audit insert that
\* follows fails, the command still succeeds and the written value is in the
\* guild table afterwards; the failing LogChange returns the database error and
\* leaves the audit table as it was.
C11_AuditFailureKeepsWrite ==
    /\ (db /\ last.resp = "ok" /\ last.logFails > 0 /\ last.cmd \in {"set", "reset"}) =>
          /\ <<last.guild, last.name>> \in DOMAIN thresholds_guild
          /\ thresholds_guild[<<last.guild, last.name>>] =
                (IF last.cmd = "set" THEN last.value ELSE Defaults[last.name])
    /\ (db /\ last.resp = "ok" /\ last.logFails > 0 /\ last.cmd = "resetall") =>
          \A n \in Names :
             /\ <<last.guild, n>> \in DOMAIN thresholds_guild
             /\ thresholds_guild[<<last.guild, n>>] = Defaults[n]
    /\ db => \A n \in Names, g \in Guilds :
          LogChange(db, thresholds_history, n, Defaults[n], Defaults[n], "u1", g, FALSE)
             = [tbl |-> thresholds_history, err |-> ErrDB]

\* C11 witness: a set of a new value succeeded, its audit insert failed
C11_Witness ==
    /\ db /\ last.cmd = "set" /\ last.resp = "ok" /\ last.logFails = 1
    /\ thresholds_history = <<>>
    /\ thresholds_guild[<<last.guild, last.name>>] = last.value
    /\ last.value # Defaults[last.name]

(* ======================= /thresholds history ======================= *)

\* recording steps of a history run
MaxLogs == 3
\* largest value of the database clock
MaxClock == 1

\* limit := 10 when the option is absent or out of range
DefaultHistoryLimit == 10
MaxHistoryLimit == 100

\* values of the limit option
Limits == {0, 2, MaxHistoryLimit, MaxHistoryLimit + 1}
\* spellings of the threshold filter option ("" when absent)
RawFilters == {"", "explicit", "Bogus"}

\* roles of a guild and the order sort.Strings puts them in
Roles == {"r1", "r2"}
RoleOrder == <<"r1", "r2">>

\* interactions: in a guild i.Member is filled, in a direct message it is nil
\* and GuildID is empty
GuildInvokers ==
    {[GuildID |-> g, Member |-> m] :
        g \in Guilds,
        m \in {[id |-> OwnerID, permissions |-> 0, roles |-> {}],
               [id |-> "u1", permissions |-> PermManageGuild, roles |-> {}],
               [id |-> "u2", permissions |-> 0, roles |-> {}],
               [id |-> "u3", permissions |-> 0, roles |-> {"r1"}],
               [id |-> "u4", permissions |-> PermAdministrator, roles |-> {"r2"}]}}
\* in a direct message the interaction has no member: it carries i.User
Invokers ==
    GuildInvokers \cup {[GuildID |-> "", Member |-> NilMember, User |-> u] : u \in {OwnerID, "u2"}}

RECURSIVE SortRoles(_, _)
SortRoles(set, k) ==
    IF k > Len(RoleOrder) THEN <<>>
    ELSE (IF RoleOrder[k] \in set THEN <<RoleOrder[k]>> ELSE <<>>) \o SortRoles(set, k + 1)

RECURSIVE Reverse(_)
Reverse(seq) == IF seq = <<>> THEN <<>> ELSE Reverse(Tail(seq)) \o <<Head(seq)>>

\* ListRoles: with a database the role_id rows of the guild (nil when the query
\* fails; the rows come in no promised order: rev picks one of two), else a
\* sorted copy of the in-memory set
ListRoles(hasDB, tbl, groles, guildID, ok, rev) ==
    IF hasDB
    THEN IF ~ok THEN <<>>
         ELSE LET asc == SortRoles({r \in Roles : <<guildID, r>> \in tbl}, 1)
              IN IF rev THEN Reverse(asc) ELSE asc
    ELSE SortRoles(IF guildID \in DOMAIN groles THEN groles[guildID] ELSE {}, 1)

Range(seq) == {seq[k] : k \in 1..Len(seq)}

\* IsAllowedForRestricted; allowed is what ps.ListRoles(i.GuildID) returned
IsAllowedForRestricted(i, allowed) ==
    IF i.GuildID = "" THEN i.Member # NilMember /\ IsOwner(i.Member.id)
    ELSE IF i.Member # NilMember /\ IsOwner(i.Member.id) THEN TRUE
    ELSE IF HasAdminContextPermission(i.Member) THEN TRUE
    ELSE IF i.Member = NilMember THEN FALSE
    ELSE IF i.Member.roles = {} THEN FALSE
    ELSE IF Len(allowed) = 0 THEN FALSE
    ELSE i.Member.roles \cap Range(allowed) # {}

\* ORDER BY created_at DESC over the row numbers ids; rows with equal created_at
\* come in no promised order: tie picks insertion order ("asc") or its reverse
RECURSIVE OrderByCreatedDesc(_, _, _)
OrderByCreatedDesc(ids, stamps, tie) ==
    IF ids = {} THEN <<>>
    ELSE LET top == CHOOSE k \in ids : \A j \in ids :
                       \/ stamps[k] > stamps[j]
                       \/ /\ stamps[k] = stamps[j]
                          /\ IF tie = "asc" THEN k <= j ELSE k >= j
         IN <<top>> \o OrderByCreatedDesc(ids \ {top}, stamps, tie)

\* LIMIT n
Limit(seq, n) == SubSeq(seq, 1, IF Len(seq) < n THEN Len(seq) ELSE n)

\* rows.Scan into a ThresholdChange
Scan(hist, stamps, k) ==
    [Name |-> hist[k].name, OldValue |-> hist[k].old_value, NewValue |-> hist[k].new_value,
     UserID |-> hist[k].user_id, GuildID |-> hist[k].guild_id, Created |-> stamps[k], id |-> k]

ClampLimitHigh(limit) == IF limit <= 0 THEN DefaultHistoryLimit ELSE limit

\* if limit <= 0 || limit > 100 { limit = 10 }
ClampLimit(limit) == IF limit <= 0 \/ limit > MaxHistoryLimit THEN DefaultHistoryLimit ELSE limit

QueryAnyGuild(hist, stamps, ids, limit, tie, ok) ==
    IF ~ok THEN [changes |-> <<>>, err |-> ErrDB]
    ELSE LET all == {k \in 1..Len(hist) : k \in ids \/ hist[k].name = hist[k].name}
             ord == Limit(OrderByCreatedDesc(all, stamps, tie), limit)
         IN [changes |-> [k \in 1..Len(ord) |-> Scan(hist, stamps, ord[k])], err |-> NoErr]

\* the SELECT ... WHERE ... ORDER BY created_at DESC LIMIT of both history queries
\* over the rows ids that satisfy the WHERE clause
Query(hist, stamps, ids, limit, tie, ok) ==
    IF ~ok THEN [changes |-> <<>>, err |-> ErrDB]
    ELSE LET ord == Limit(OrderByCreatedDesc(ids, stamps, tie), limit)
         IN [changes |-> [k \in 1..Len(ord) |-> Scan(hist, stamps, ord[k])], err |-> NoErr]

HistoryForGuild(hasDB, hist, stamps, guildID, limit, tie, ok) ==
    IF ~hasDB THEN [changes |-> <<>>, err |-> NoErr]
    ELSE Query(hist, stamps, {k \in 1..Len(hist) : hist[k].guild_id = guildID},
               ClampLimit(limit), tie, ok)

HistoryFilteredForGuild(hasDB, hist, stamps, guildID, name, limit, tie, ok) ==
    IF ~hasDB THEN [changes |-> <<>>, err |-> NoErr]
    ELSE Query(hist, stamps,
               {k \in 1..Len(hist) : hist[k].guild_id = guildID /\ hist[k].name = name},
               ClampLimit(limit), tie, ok)

(* ---------------- history run: recording steps, clock, one history command ---------------- *)
\* a LogChange call that succeeds (as made by a set or a single reset)
RecordOne ==
    /\ ~changes.done
    /\ ncmds < MaxLogs
    /\ \E g \in Guilds :
         /\ thresholds_history' =
               LogChange(db, thresholds_history, "NudityExplicit", Defaults["NudityExplicit"],
                         One, "u1", g, TRUE).tbl
         /\ created_at' = Stamp(created_at, Len(thresholds_history'), now)
    /\ ncmds' = ncmds + 1
    /\ UNCHANGED <<db, mem, thresholds, thresholds_guild, last, prev, nfaults, now, changes>>
    /\ UNCHANGED analysisVars
    /\ UNCHANGED permVars
    /\ UNCHANGED calls
    /\ UNCHANGED invoker

\* the four LogChange calls of a reset all, all succeeding
RecordAll ==
    /\ ~changes.done
    /\ ncmds < MaxLogs
    /\ \E g \in Guilds :
         /\ thresholds_history' =
               LogAllFrom(thresholds_history, 1, Defaults, "u1", g, [k \in 1..Len(NameOrder) |-> TRUE])
         /\ created_at' = Stamp(created_at, Len(thresholds_history'), now)
    /\ ncmds' = ncmds + 1
    /\ UNCHANGED <<db, mem, thresholds, thresholds_guild, last, prev, nfaults, now, changes>>
    /\ UNCHANGED analysisVars
    /\ UNCHANGED permVars
    /\ UNCHANGED calls
    /\ UNCHANGED invoker

\* time passes on the database server
Tick ==
    /\ ~changes.done
    /\ now < MaxClock
    /\ now' = now + 1
    /\ UNCHANGED <<created_at, changes>>
    /\ UNCHANGED storeVars
    /\ UNCHANGED analysisVars
    /\ UNCHANGED permVars
    /\ UNCHANGED calls
    /\ UNCHANGED invoker

Replied(i, resp, name, limit, r) ==
    /\ changes' = [done |-> TRUE, resp |-> resp, guild |-> i.GuildID, name |-> name,
                   limit |-> limit, changes |-> r.changes, err |-> r.err]
    /\ UNCHANGED <<created_at, now>>
    /\ UNCHANGED storeVars
    /\ UNCHANGED analysisVars
    /\ UNCHANGED permVars
    /\ UNCHANGED calls
    /\ UNCHANGED invoker

NoResult == [changes |-> <<>>, err |-> NoErr]

\* the view gate of list and history for interaction i
MayView(i, listOk) ==
    \/ HasAdminContextPermission(i.Member)
    \/ IsAllowedForRestricted(i, ListRoles(db, permissions, guildRoles, i.GuildID, listOk, FALSE))

\* /thresholds history [limit] [threshold]
\* (the invokers of one guild with the same gate outcome take the same steps)
HandleHistory ==
    /\ ~changes.done
    /\ \E g \in {i.GuildID : i \in Invokers} :
       \E may \in {MayView(i, listOk) : i \in {j \in Invokers : j.GuildID = g}, listOk \in BOOLEAN} :
         LET i == CHOOSE j \in Invokers : j.GuildID = g IN
         IF ~may
         THEN Replied(i, "denied", "", 0, NoResult)
         ELSE \E limit \in Limits \cup {DefaultHistoryLimit}, nameFilter \in RawFilters,
                 tie \in {"asc", "desc"}, ok \in BOOLEAN :
              LET c == canonicalThresholdName(nameFilter)
                  r == IF nameFilter # ""
                       THEN HistoryFilteredForGuild(db, thresholds_history, created_at,
                                                    i.GuildID, c.name, limit, tie, ok)
                       ELSE HistoryForGuild(db, thresholds_history, created_at,
                                            i.GuildID, limit, tie, ok)
              IN IF nameFilter # "" /\ ~c.ok THEN Replied(i, "unknown", nameFilter, limit, NoResult)
                 ELSE IF r.err # NoErr THEN Replied(i, "failed", c.name, limit, r)
                 ELSE IF Len(r.changes) = 0 THEN Replied(i, "none", c.name, limit, r)
                 ELSE Replied(i, "ok", c.name, limit, r)

HistoryInit ==
    /\ StoreInit
    /\ out = NoDoc
    /\ thr = Defaults
    /\ analysis = NoAnalysis

HistoryNext == RecordOne \/ RecordAll \/ Tick \/ HandleHistory

SpecHistory == HistoryInit /\ [][HistoryNext]_vars

\* the rows of the table the last history command asked for
Matching ==
    {k \in 1..Len(thresholds_history) :
        /\ thresholds_history[k].guild_id = changes.guild
        /\ changes.name # "" => thresholds_history[k].name = changes.name}

\* the bound a requested limit stands for
EffectiveLimit(limit) == IF 1 <= limit /\ limit <= 100 THEN limit ELSE 10

Min(a, b) == IF a < b THEN a ELSE b

\* C12: a history command that reached its query gets at most L records, L the
\* requested limit when it is in 1..100 and 10 otherwise; an out-of-range limit
\* is not refused: the query that succeeds returns the L newest matching rows,
\* or all of them when there are fewer.
C12_HistoryLimit ==
    (changes.done /\ changes.resp \in {"ok", "none", "failed"}) =>
        /\ Len(changes.changes) <= EffectiveLimit(changes.limit)
        /\ (db /\ changes.err = NoErr) =>
              Len(changes.changes) = Min(EffectiveLimit(changes.limit), Cardinality(Matching))

\* C12 witness: limit 101 over twelve rows of the guild returned ten
C12_Witness ==
    /\ changes.done /\ changes.resp = "ok"
    /\ changes.limit = 101
    /\ Cardinality(Matching) = 12
    /\ Len(changes.changes) = 10

\* C13: the records a history command shows all belong to the requested guild
\* (and to the filter's name when one is given), no row twice, with created
\* times that never increase down the list, and every matching row left out is
\* no newer than any row shown; in the table every row has a created time, and
\* the times never decrease in insertion order.
C13_HistoryNewestFirst ==
    /\ Len(created_at) = Len(thresholds_history)
    /\ \A j, k \in 1..Len(created_at) : j < k => created_at[j] <= created_at[k]
    /\ (changes.done /\ changes.resp = "ok") =>
          LET res == changes.changes
              shown == {res[k].id : k \in 1..Len(res)}
          IN /\ \A k \in 1..Len(res) :
                   /\ res[k].GuildID = changes.guild
                   /\ changes.name # "" => res[k].Name = changes.name
                   /\ res[k].id \in Matching
                   /\ res[k].Created = created_at[res[k].id]
                   /\ res[k].NewValue = thresholds_history[res[k].id].new_value
             /\ Cardinality(shown) = Len(res)
             /\ \A j, k \in 1..Len(res) : j < k => res[j].Created >= res[k].Created
             /\ \A m \in Matching \ shown, k \in 1..Len(res) : created_at[m] <= res[k].Created

\* C13 witness: a filtered history of two records, while the table holds rows of
\* other names and an older matching row that is left out
C13_Witness ==
    /\ changes.done /\ changes.resp = "ok" /\ changes.name = "NudityExplicit"
    /\ Len(changes.changes) = 2
    /\ \E k \in 1..Len(thresholds_history) :
          thresholds_history[k].guild_id = changes.guild /\ thresholds_history[k].name # changes.name
    /\ \E m \in Matching : created_at[m] < changes.changes[2].Created

(* ======================= no database ======================= *)

\* C14: without a database, whatever set and reset commands and store calls have
\* run: LogChange changes nothing and returns no error, the audit table and the
\* threshold tables hold no row, both history queries return no record and no
\* error for every guild, name and limit, and GetGuildThresholds returns the
\* compiled defaults for every guild.
C14_NoDatabase ==
    ~db =>
        /\ \A n \in Names, g \in Guilds, ok \in BOOLEAN :
              LogChange(db, thresholds_history, n, Defaults[n], One, "u1", g, ok)
                 = [tbl |-> thresholds_history, err |-> NoErr]
        /\ thresholds_history = <<>>
        /\ thresholds_guild = EmptyTable /\ thresholds = EmptyTable
        /\ \A g \in Guilds \cup {""}, limit \in Limits, tie \in {"asc", "desc"}, ok \in BOOLEAN :
              /\ HistoryForGuild(db, thresholds_history, created_at, g, limit, tie, ok)
                    = [changes |-> <<>>, err |-> NoErr]
              /\ \A n \in Names :
                    HistoryFilteredForGuild(db, thresholds_history, created_at, g, n, limit, tie, ok)
                       = [changes |-> <<>>, err |-> NoErr]
        /\ \A g \in Guilds \cup {""}, guildOk \in BOOLEAN, globOk \in BOOLEAN :
              GetGuildThresholds(db, thresholds_guild, thresholds, g, guildOk, globOk) = Defaults

\* C14 witness: without a database, a global Set changed the in-memory value
\* and a /thresholds set then succeeded
C14_Witness ==
    /\ ~db
    /\ prev.cmd = "Set" /\ prev.resp = "ok" /\ mem # Defaults
    /\ last.cmd = "set" /\ last.resp = "ok"

(* ======================= /thresholds set: the value string ======================= *)

\* a string is a sequence of one-character strings
DigitChars == {"0", "1", "2", "5", "7"}
DigitVal(c) ==
    CASE c = "0" -> 0 [] c = "1" -> 1 [] c = "2" -> 2 [] c = "5" -> 5 [] c = "7" -> 7

\* value strings a user may type ("" when the option is empty)
ValueStrs ==
    {<<"7", "0", "%">>, <<"0", ".", "7">>, <<"a", "b", "c">>, <<"N", "a", "N">>,
     <<" ", "2", "5", " ", "%", " ">>, <<"1", ".", "2", "5">>, <<"-", "1", "%">>, <<>>}

RECURSIVE TrimLeft(_)
TrimLeft(s) == IF s # <<>> /\ Head(s) = " " THEN TrimLeft(Tail(s)) ELSE s

RECURSIVE TrimRight(_)
TrimRight(s) ==
    IF s # <<>> /\ s[Len(s)] = " " THEN TrimRight(SubSeq(s, 1, Len(s) - 1)) ELSE s

\* strings.TrimSpace
TrimSpace(s) == TrimRight(TrimLeft(s))

\* strings.HasSuffix(s, "%") and strings.TrimSuffix(s, "%")
HasSuffixPercent(s) == s # <<>> /\ s[Len(s)] = "%"
TrimSuffixPercent(s) == IF HasSuffixPercent(s) THEN SubSeq(s, 1, Len(s) - 1) ELSE s

RECURSIVE Pow10(_)
Pow10(n) == IF n = 0 THEN 1 ELSE 10 * Pow10(n - 1)

RECURSIVE DigitsValue(_, _)
\* the number written by the digits of s, skipping the point
DigitsValue(s, acc) ==
    IF s = <<>> THEN acc
    ELSE IF Head(s) = "." THEN DigitsValue(Tail(s), acc)
    ELSE DigitsValue(Tail(s), 10 * acc + DigitVal(Head(s)))

\* a float64 as parsed: NaN, or the rational sign * num / den
NaNFloat == [err |-> FALSE, nan |-> TRUE, neg |-> FALSE, num |-> 0, den |-> 1]
ParseErr == [err |-> TRUE, nan |-> FALSE, neg |-> FALSE, num |-> 0, den |-> 1]

\* strconv.ParseFloat(s, 64) on decimal notation: [sign] digits [. digits], or NaN
ParseFloat(s) ==
    IF s = <<"N", "a", "N">> THEN NaNFloat
    ELSE LET signed == s # <<>> /\ Head(s) \in {"-", "+"}
             body == IF signed THEN Tail(s) ELSE s
             dots == {k \in 1..Len(body) : body[k] = "."}
             valid == /\ \A k \in 1..Len(body) : body[k] \in DigitChars \cup {"."}
                      /\ Cardinality(dots) <= 1
                      /\ Len(body) - Cardinality(dots) >= 1
             frac == IF dots = {} THEN 0 ELSE Len(body) - (CHOOSE k \in dots : TRUE)
         IN IF ~valid THEN ParseErr
            ELSE [err |-> FALSE, nan |-> FALSE, neg |-> signed /\ Head(s) = "-",
                  num |-> DigitsValue(body, 0), den |-> Pow10(frac)]

parseThresholdValueNoPercent(in) == ParseFloat(TrimSuffixPercent(TrimSpace(in)))

\* parseThresholdValue: trims, divides a number with a trailing % by 100
parseThresholdValue(in) ==
    LET s == TrimSpace(in) IN
    IF HasSuffixPercent(s)
    THEN LET f == ParseFloat(TrimSpace(TrimSuffixPercent(s))) IN
         IF f.err THEN ParseErr ELSE [f EXCEPT !.den = f.den * 100]
    ELSE ParseFloat(s)

\* val < 0 and val > 1 on a float64: both false for NaN
LessThanZero(f) == ~f.nan /\ f.neg /\ f.num > 0
GreaterThanOne(f) == ~f.nan /\ ~f.neg /\ f.num > f.den

\* the value NaN among the stored values (which are ticks of 1/300)
NaN == 0 - One

\* the float64 in ticks of 1/300
Ticks(f) == IF f.nan THEN NaN ELSE (IF f.neg THEN 0 - 1 ELSE 1) * ((f.num * One) \div f.den)

\* a set command answered before the store is touched; text is the value typed
RejectText(text, name, resp) ==
    /\ UNCHANGED <<mem, thresholds, thresholds_guild, thresholds_history>>
    /\ Done([text |-> text, cmd |-> "set", guild |-> "", name |-> name, value |-> 0, resp |-> resp,
             before |-> Defaults, after |-> Defaults, failedAt |-> 0, logFails |-> 0], 0)

WrittenText(text, g, name, val, w, l) ==
    /\ thresholds_guild' = w.tbl
    /\ thresholds_history' = l.tbl
    /\ UNCHANGED <<mem, thresholds>>
    /\ Done([text |-> text, cmd |-> "set", guild |-> g, name |-> name, value |-> val, resp |-> "ok",
             before |-> Effective(thresholds_guild, thresholds, g),
             after |-> Effective(w.tbl, thresholds, g),
             failedAt |-> 0, logFails |-> 0], 0)

\* /thresholds set <threshold> <value>, the value as typed; every database
\* statement succeeds
HandleSetText ==
    /\ ncmds < MaxCmds
    /\ \E m \in Members :
         /\ invoker' = m
         /\ IF ~(IsOwner(m.id) \/ HasAdminContextPermission(m)) THEN RejectText(<<>>, "", "denied")
            ELSE \E text \in ValueStrs :
              LET valueStr == TrimSpace(text)
                  val == parseThresholdValue(valueStr)
              IN
              IF valueStr = <<>> THEN RejectText(text, "", "usage")
              ELSE IF val.err \/ LessThanZero(val) \/ GreaterThanOne(val)
              THEN RejectText(text, "", "badvalue")
              ELSE \E raw \in RawNames :
                LET c == canonicalThresholdName(raw) IN
                IF ~c.ok THEN RejectText(text, raw, "unknown")
                ELSE \E g \in Guilds :
                  LET old == GetGuildThresholds(db, thresholds_guild, thresholds, g, TRUE, TRUE)
                      w == SetGuild(db, thresholds_guild, g, c.name, Ticks(val), "none")
                  IN WrittenText(text, g, c.name, Ticks(val), w,
                                 LogChange(db, thresholds_history, c.name, old[c.name], Ticks(val),
                                           m.id, g, TRUE))

\* the commands with a database whose statements all succeed
TextInit ==
    /\ db \in BOOLEAN
    /\ mem = Defaults
    /\ thresholds = EmptyTable
    /\ thresholds_guild = EmptyTable
    /\ thresholds_history = <<>>
    /\ last = NoCmd
    /\ prev = NoCmd
    /\ ncmds = 0
    /\ nfaults = MaxFaults
    /\ created_at = <<>>
    /\ now = 0
    /\ changes = NoChanges
    /\ permissions = {}
    /\ guildRoles = EmptyTable
    /\ file = EmptyTable
    /\ tmpfile = NoFile
    /\ perm = NoPerm
    /\ calls = NoCalls
    /\ invoker = NoInvoker
    /\ out = NoDoc
    /\ thr = Defaults
    /\ analysis = NoAnalysis

TextNext == HandleSetText \/ HandleResetOne \/ HandleResetAll

SpecText == TextInit /\ [][TextNext]_vars

\* the value strings and what they stand for
Str70Percent == <<"7", "0", "%">>
Str07 == <<"0", ".", "7">>
StrAbc == <<"a", "b", "c">>

IsSetText(rec) == rec.cmd = "set" /\ "text" \in DOMAIN rec

\* the number a value string denotes, when it is decimal notation with an
\* optional % after it (0 for anything else)
IsDecimal(s) ==
    /\ s # <<>>
    /\ \A k \in 1..Len(s) : s[k] \in DigitChars \cup {"."} \/ (k = 1 /\ s[k] = "-")
    /\ \E k \in 1..Len(s) : s[k] \in DigitChars

\* C15: a set whose value string is no number (after trimming and stripping a
\* trailing %), or whose number is below 0 or above 1, is refused as a bad value
\* and changes no threshold, table row or audit record; "70%" and "0.7" are
\* accepted as 0.70, "abc" does not parse.
C15_BadValueRejected ==
    /\ parseThresholdValue(Str70Percent) = [err |-> FALSE, nan |-> FALSE, neg |-> FALSE, num |-> 70, den |-> 100]
    /\ parseThresholdValue(Str07) = [err |-> FALSE, nan |-> FALSE, neg |-> FALSE, num |-> 7, den |-> 10]
    /\ Ticks(parseThresholdValue(Str70Percent)) = Ticks(parseThresholdValue(Str07))
    /\ parseThresholdValue(StrAbc).err
    /\ [][(ncmds' = ncmds + 1 /\ IsSetText(last') /\ last'.resp # "denied" /\ last'.text # <<>>) =>
            LET body == TrimSpace(TrimSuffixPercent(TrimSpace(last'.text)))
                f == parseThresholdValue(last'.text)
                bad == \/ ~(IsDecimal(body) \/ body = <<"N", "a", "N">>)
                       \/ (~f.err /\ (LessThanZero(f) \/ GreaterThanOne(f)))
            IN /\ bad => /\ last'.resp = "badvalue"
                         /\ UNCHANGED <<mem, thresholds, thresholds_guild, thresholds_history>>
               /\ last'.resp = "ok" => (~bad /\ last'.value = Ticks(f))]_vars

\* C15 witness: "70%" was stored as 0.70, then "-1%" was refused
C15_Witness ==
    /\ db
    /\ IsSetText(prev) /\ prev.resp = "ok" /\ prev.text = Str70Percent
    /\ IsSetText(last) /\ last.resp = "badvalue" /\ last.text = <<"-", "1", "%">>
    /\ thresholds_guild[<<prev.guild, prev.name>>] = 7 * (One \div 10)
    /\ Len(thresholds_history) = 1

InUnitRange(v) == v # NaN /\ 0 <= v /\ v <= One

\* C16: whatever set and reset commands have run, every value in a row of the
\* guild table and every value GetGuildThresholds returns for a guild is a
\* number from 0 to 1.
C16_ValuesInRange ==
    /\ \A key \in DOMAIN thresholds_guild : InUnitRange(thresholds_guild[key])
    /\ \A g \in Guilds, n \in Names :
          InUnitRange(GetGuildThresholds(db, thresholds_guild, thresholds, g, TRUE, TRUE)[n])

(* ======================= analysis of an image for a guild ======================= *)

\* responses of the moderation API: no field, and nudity.very_suggestive = 0.75
\* (suggestive score 0.25)
ApiDocs ==
    {EmptyMap,
     MkDocFrom(EmptyMap, <<[kind |-> "leaf", cat |-> "nudity", field |-> "very_suggestive",
                            leaf |-> Float64(225)]>>, 1)}

\* AnalyseImageURL(guildID, imageURL): the API request, the guild's thresholds,
\* AnalyseResult.  apiOk: the request succeeded; guildOk, globOk: the two
\* queries of GetGuildThresholds succeeded.
AnalyseImageURLFor(g, pre) ==
    \E doc \in ApiDocs, apiOk \in BOOLEAN,
       guildOk \in (IF GetGuildThresholdsQueries(db, g) = 0 THEN {TRUE} ELSE OkChoices),
       globOk \in (IF GetGuildThresholdsQueries(db, g) = 0 THEN {TRUE} ELSE OkChoices) :
        LET t == GetGuildThresholds(db, thresholds_guild, thresholds, g, guildOk, globOk)
            a == AnalyseResult(doc, t["NuditySuggestive"], t["NudityExplicit"],
                               t["Offensive"], t["AIGenerated"])
            failed == IF apiOk THEN B2N(guildOk) + B2N(globOk) ELSE 0
        IN /\ nfaults + pre + failed <= MaxFaults
           /\ nfaults' = nfaults + pre + failed
           /\ analysis' =
                 IF ~apiOk
                 THEN [done |-> TRUE, err |-> "api", guild |-> g, readFailed |-> FALSE]
                 ELSE [done |-> TRUE, err |-> NoErr, guild |-> g, readFailed |-> failed > 0,
                       Allowed |-> a.Allowed, Reasons |-> a.Reasons, Scores |-> a.Scores,
                       MediaURI |-> a.MediaURI, thresholds |-> t,
                       lookups |-> GetGuildThresholdsQueries(db, g)]
           /\ out' = doc
           /\ thr' = t
           /\ UNCHANGED <<db, mem, thresholds, thresholds_guild, thresholds_history,
                          last, prev, ncmds>>
           /\ UNCHANGED historyVars
           /\ UNCHANGED permVars
           /\ UNCHANGED calls

\* pre: statements that failed in the caller before the call
AnalyseImageURL == \E g \in Guilds \cup {""} : AnalyseImageURLFor(g, 0) /\ UNCHANGED invoker

ResolveNext == HandleSet \/ AnalyseImageURL

SpecResolve == Init /\ [][ResolveNext]_vars

\* C17: with a database, an image analysis during which a threshold query failed
\* returns an error to its caller, and no verdict.
C17_ReadFailureSurfaced ==
    (db /\ analysis.done /\ analysis.readFailed) => analysis.err # NoErr

(* ======================= concurrent store calls ======================= *)

\* every interaction is handled in its own goroutine, so the store calls of two
\* commands may interleave; the store takes no lock, the database runs each
\* statement atomically
ConcNames == {"NuditySuggestive", "Offensive"}
ConcValues == Values \cup GlobalValues

\* the SetGuild calls a store call makes, in order
CallWrites(c) ==
    IF c.op = "SetGuild" THEN <<[name |-> c.name, value |-> c.value]>>
    ELSE [k \in 1..Len(NameOrder) |->
             [name |-> NameOrder[k], value |-> defaultThresholdValue(NameOrder[k])]]

\* a goroutine enters SetGuild(guildID, name, value) or ResetAllGuild(guildID)
Call(p) ==
    /\ calls[p].op = "none"
    /\ \E g \in Guilds :
          \/ \E n \in ConcNames, v \in ConcValues :
                calls' = [calls EXCEPT ![p] = [IdleCall EXCEPT !.op = "SetGuild", !.guildID = g,
                                                               !.name = n, !.value = v]]
          \/ calls' = [calls EXCEPT ![p] = [IdleCall EXCEPT !.op = "ResetAllGuild", !.guildID = g]]
    /\ UNCHANGED storeVars
    /\ UNCHANGED analysisVars
    /\ UNCHANGED historyVars
    /\ UNCHANGED permVars
    /\ UNCHANGED invoker

\* the goroutine runs its next SetGuild: the table statement and the upsert
\* (the first touches no row, so the pair is taken as one step); the call
\* returns after its last SetGuild or at the first error
Step(p) ==
    LET c == calls[p]
        ws == CallWrites(c)
    IN /\ c.op # "none" /\ ~c.ret
       /\ \E fail \in SetFails :
            LET w == ws[c.pc + 1]
                r == SetGuild(db, thresholds_guild, c.guildID, w.name, w.value, fail)
            IN /\ thresholds_guild' = r.tbl
               /\ nfaults' = nfaults + (IF fail = "none" THEN 0 ELSE 1)
               /\ calls' = [calls EXCEPT ![p] =
                     [c EXCEPT !.pc = c.pc + 1,
                               !.err = r.err,
                               !.ret = (r.err # NoErr) \/ (c.pc + 1 = Len(ws)),
                               !.wrote = IF db /\ r.err = NoErr
                                         THEN c.wrote \cup {<<w.name, w.value>>} ELSE c.wrote]]
       /\ UNCHANGED <<db, mem, thresholds, thresholds_history, last, prev, ncmds>>
       /\ UNCHANGED analysisVars
       /\ UNCHANGED historyVars
       /\ UNCHANGED permVars
       /\ UNCHANGED invoker

ConcNext == \E p \in Procs : Call(p) \/ Step(p)

SpecConc == Init /\ [][ConcNext]_vars

Keys == Guilds \X Names

\* a row of the guild table as a sequence: empty when there is no such row
RowAt(tbl, key) == IF key \in DOMAIN tbl THEN <<tbl[key]>> ELSE <<>>

\* the values the calls have written into a row so far
WrittenTo(key) ==
    {v \in ConcValues \cup {Defaults[n] : n \in Names} :
        \E p \in Procs : calls[p].guildID = key[1] /\ <<key[2], v>> \in calls[p].wrote}

\* C18: however the SetGuild and ResetAllGuild calls of concurrent commands
\* interleave, a step changes only the row (guild, name) its own call writes,
\* to that call's value: calls for different guilds, and for different names of
\* one guild, never disturb each other; and every row holds the value of one of
\* the writes made to it (the one write, when there was only one), a row no
\* call wrote does not exist.
C18_ConcurrentWrites ==
    /\ [](\A key \in Keys :
            IF WrittenTo(key) = {} THEN key \notin DOMAIN thresholds_guild
            ELSE key \in DOMAIN thresholds_guild /\ thresholds_guild[key] \in WrittenTo(key))
    /\ [][\A key \in Keys :
            RowAt(thresholds_guild', key) # RowAt(thresholds_guild, key) =>
               \E p \in Procs :
                  /\ calls'[p].pc = calls[p].pc + 1
                  /\ calls[p].guildID = key[1]
                  /\ CallWrites(calls[p])[calls'[p].pc].name = key[2]
                  /\ RowAt(thresholds_guild', key) = <<CallWrites(calls[p])[calls'[p].pc].value>>]_vars

\* C18 witness: a set and a reset all of the same guild have both returned
\* without error, the set's row holds the set's value and the other rows the
\* defaults; the other guild has no row
C18_Witness ==
    /\ db
    /\ \E p, q \in Procs :
          /\ calls[p].op = "SetGuild" /\ calls[p].ret /\ calls[p].err = NoErr
          /\ calls[q].op = "ResetAllGuild" /\ calls[q].ret /\ calls[q].err = NoErr
          /\ calls[p].guildID = calls[q].guildID
          /\ calls[p].value # Defaults[calls[p].name]
          /\ thresholds_guild[<<calls[p].guildID, calls[p].name>>] = calls[p].value
          /\ \A n \in Names \ {calls[p].name} :
                thresholds_guild[<<calls[p].guildID, n>>] = Defaults[n]
          /\ \A key \in DOMAIN thresholds_guild : key[1] = calls[p].guildID

(* ======================= /permissions ======================= *)

\* SaveToFile: the in-memory whitelist, each guild's roles sorted, replaces the
\* file; a failed write leaves the file as it was
SaveToFile(groles, f, ok) ==
    IF ok THEN [g \in DOMAIN groles |-> SortRoles(groles[g], 1)] ELSE f

\* AddRole: with a database an insert that ignores an existing row (its error
\* is only logged); else the role joins the guild's set and the file is saved
AddRole(hasDB, tbl, groles, f, guildID, roleID, ok) ==
    IF hasDB
    THEN [permissions |-> IF ok THEN tbl \cup {<<guildID, roleID>>} ELSE tbl,
          guildRoles |-> groles, file |-> f]
    ELSE LET set == IF guildID \in DOMAIN groles THEN groles[guildID] ELSE {}
             g2 == Upsert(groles, guildID, set \cup {roleID})
         IN [permissions |-> tbl, guildRoles |-> g2, file |-> SaveToFile(g2, f, ok)]

\* RemoveRole keeping a guild whose last role was removed
RemoveRoleKeepEmpty(hasDB, tbl, groles, f, guildID, roleID, ok) ==
    IF hasDB
    THEN [permissions |-> IF ok THEN tbl \ {<<guildID, roleID>>} ELSE tbl,
          guildRoles |-> groles, file |-> f]
    ELSE LET g2 == IF guildID \notin DOMAIN groles THEN groles
                   ELSE [groles EXCEPT ![guildID] = groles[guildID] \ {roleID}]
         IN [permissions |-> tbl, guildRoles |-> g2, file |-> SaveToFile(g2, f, ok)]

\* RemoveRole: with a database a delete of the row; else the role leaves the
\* guild's set, an empty set is dropped, and the file is saved
RemoveRole(hasDB, tbl, groles, f, guildID, roleID, ok) ==
    IF hasDB
    THEN [permissions |-> IF ok THEN tbl \ {<<guildID, roleID>>} ELSE tbl,
          guildRoles |-> groles, file |-> f]
    ELSE LET g2 == IF guildID \notin DOMAIN groles THEN groles
                   ELSE IF groles[guildID] \ {roleID} = {}
                        THEN [g \in DOMAIN groles \ {guildID} |-> groles[g]]
                        ELSE [groles EXCEPT ![guildID] = groles[guildID] \ {roleID}]
         IN [permissions |-> tbl, guildRoles |-> g2, file |-> SaveToFile(g2, f, ok)]

\* outcomes of writing the file: it can fail while the failure budget lasts
FileOks == IF nfaults < MaxFaults THEN BOOLEAN ELSE {TRUE}

\* the handler has replied; st is the whitelist it leaves (role is the option
\* the handler read, "" when it replied before reading it)
PermReplied(i, sub, role, resp, st, list, faults) ==
    /\ permissions' = st.permissions
    /\ guildRoles' = st.guildRoles
    /\ file' = st.file
    /\ tmpfile' = (IF st.file # file THEN NoFile ELSE tmpfile)
    /\ ncmds' = ncmds + 1
    /\ nfaults' = nfaults + faults
    /\ invoker' = i.Member
    /\ perm' = [done |-> TRUE, n |-> ncmds + 1, guild |-> i.GuildID, sub |-> sub, role |-> role,
                resp |-> resp, list |-> list]
    /\ UNCHANGED <<db, mem, thresholds, thresholds_guild, thresholds_history, last, prev>>
    /\ UNCHANGED analysisVars
    /\ UNCHANGED historyVars
    /\ UNCHANGED calls

\* /permissions add|remove|list by a member of a guild (the role option is
\* required, so a role always arrives)
HandlePermissions ==
    /\ ncmds < MaxCmds
    /\ \E i \in GuildInvokers, sub \in {"add", "remove", "list"}, role \in Roles :
         LET st == [permissions |-> permissions, guildRoles |-> guildRoles, file |-> file] IN
         IF ~(IsOwner(i.Member.id) \/ HasAdminContextPermission(i.Member))
         THEN PermReplied(i, sub, "", "denied", st, <<>>, 0)
         ELSE IF sub = "list"
         THEN \/ PermReplied(i, sub, "", "nodefer", st, <<>>, 0)
              \/ \E ok \in OkChoices, rev \in BOOLEAN :
                   PermReplied(i, sub, "", "ok", st,
                               ListRoles(db, permissions, guildRoles, i.GuildID, ok, rev), B2N(ok))
         ELSE IF role = "" THEN PermReplied(i, sub, role, "missing", st, <<>>, 0)
         ELSE \/ PermReplied(i, sub, role, "nodefer", st, <<>>, 0)
              \/ \E ok \in (IF db THEN OkChoices ELSE FileOks) :
                   LET st2 == IF sub = "add"
                              THEN AddRole(db, permissions, guildRoles, file, i.GuildID, role, ok)
                              ELSE RemoveRole(db, permissions, guildRoles, file, i.GuildID, role, ok)
                   IN \E rev \in BOOLEAN :
                        PermReplied(i, sub, role, "ok", st2,
                                    ListRoles(db, st2.permissions, st2.guildRoles, i.GuildID, TRUE, rev),
                                    B2N(ok))

\* the whitelist commands next to /thresholds set and reset (reset all passes
\* the same gate as reset and runs under Spec)
PermNext == HandlePermissions \/ HandleSet \/ HandleResetOne

SpecPerm == Init /\ [][PermNext]_vars

\* the member is the owner or holds Administrator or Manage Guild
Privileged(m) ==
    \/ m.id = OwnerID
    \/ (m.permissions \div PermAdministrator) % 2 = 1
    \/ (m.permissions \div PermManageGuild) % 2 = 1

\* the command handled by this step changes state when it is let through:
\* /thresholds set, reset, reset all, /permissions add, remove
StateChanging ==
    IF perm'.done /\ perm'.n = ncmds' THEN perm'.sub \in {"add", "remove"}
    ELSE last'.cmd \in {"set", "reset", "resetall"}

\* C19: a state-changing command invoked by a guild member who is neither the
\* owner nor holds Administrator or Manage Guild is refused and leaves every
\* threshold (rows and in-memory values), every audit record and its time, and
\* every whitelist (table, in-memory sets, file) as they were.
C19_UnprivilegedChangesNothing ==
    [][(ncmds' = ncmds + 1 /\ invoker' # NoInvoker /\ ~Privileged(invoker') /\ StateChanging) =>
          /\ (IF perm'.done /\ perm'.n = ncmds' THEN perm'.resp ELSE last'.resp) = "denied"
          /\ UNCHANGED <<mem, thresholds, thresholds_guild, thresholds_history, created_at,
                         permissions, guildRoles, file>>]_vars

\* C19 witness: after an administrator put role r1 on a guild's whitelist, a
\* member holding r1 and no privilege asked to remove it and was refused
C19_Witness ==
    /\ perm.done /\ perm.n = ncmds /\ perm.sub = "remove" /\ perm.resp = "denied"
    /\ invoker # NoInvoker /\ ~Privileged(invoker) /\ "r1" \in invoker.roles
    /\ "r1" \in Range(ListRoles(db, permissions, guildRoles, perm.guild, TRUE, FALSE))

(* ======================= restricted commands ======================= *)

\* who invoked the interaction: its member in a guild, its user in a direct message
InvokerOf(i) == IF i.Member # NilMember THEN i.Member ELSE [id |-> i.User]

\* IsAllowedForRestricted reaches ps.ListRoles only for a member of a guild who
\* is neither owner nor administrator and has a role
ReadsWhitelist(i) ==
    /\ i.GuildID # "" /\ i.Member # NilMember
    /\ ~IsOwner(i.Member.id) /\ ~HasAdminContextPermission(i.Member)
    /\ i.Member.roles # {}

\* a restricted command answered without an analysis
AnalyseReplied(i, resp, faults) ==
    /\ analysis' = [done |-> TRUE, err |-> resp, guild |-> i.GuildID, readFailed |-> FALSE]
    /\ nfaults' = nfaults + faults
    /\ UNCHANGED <<db, mem, thresholds, thresholds_guild, thresholds_history, last, prev, ncmds,
                   out, thr>>
    /\ UNCHANGED historyVars
    /\ UNCHANGED permVars
    /\ UNCHANGED calls

\* /analyse image_url: the access check, then the analysis for the guild of the
\* interaction (advanced: the breakdown, which uses no threshold and gives no verdict)
HandleAnalyse ==
    /\ ~analysis.done
    /\ \E i \in Invokers :
       \E listOk \in (IF ReadsWhitelist(i) THEN OkChoices ELSE {TRUE}), rev \in BOOLEAN :
         /\ invoker' = InvokerOf(i)
         /\ IF ~IsAllowedForRestricted(i, ListRoles(db, permissions, guildRoles, i.GuildID, listOk, rev))
            THEN AnalyseReplied(i, "denied", B2N(listOk))
            ELSE \/ AnalyseReplied(i, "nodefer", B2N(listOk))
                 \/ AnalyseReplied(i, "advanced", B2N(listOk))
                 \/ AnalyseImageURLFor(i.GuildID, B2N(listOk))

AccessNext == HandlePermissions \/ HandleAnalyse

SpecAccess == Init /\ [][AccessNext]_vars

\* the roles now on a guild's whitelist
Whitelist(g) ==
    IF db THEN {r \in Roles : <<g, r>> \in permissions}
    ELSE IF g \in DOMAIN guildRoles THEN guildRoles[g] ELSE {}

\* C20: a restricted command invoked in a guild is let through exactly when the
\* invoker is the owner, or holds Administrator or Manage Guild, or has a role
\* that is on the guild's whitelist at that time; invoked in a direct message
\* it is let through exactly when the invoker is the owner.
C20_AccessRule ==
    [][(~analysis.done /\ analysis'.done) =>
          LET granted == analysis'.err # "denied"
              who == invoker'
          IN IF analysis'.guild = "" THEN granted <=> who.id = OwnerID
             ELSE granted <=> \/ who.id = OwnerID
                              \/ (who.permissions \div PermAdministrator) % 2 = 1
                              \/ (who.permissions \div PermManageGuild) % 2 = 1
                              \/ who.roles \cap Whitelist(analysis'.guild) # {}]_vars

(* ======================= AI-only analysis ======================= *)

\* values an administrator may set: 0, 0.25, 0.75 (all inside the accepted range)
ThresholdSettings == {0, 75, 225}

\* /thresholds set by an administrator, name and value accepted, every statement
\* succeeding
HandleSetAccepted ==
    /\ ncmds < MaxCmds
    /\ \E m \in {x \in Members : HasAdminContextPermission(x)}, g \in Guilds, n \in Names,
          val \in ThresholdSettings :
         LET old == GetGuildThresholds(db, thresholds_guild, thresholds, g, TRUE, TRUE)
             w == SetGuild(db, thresholds_guild, g, n, val, "none")
         IN /\ invoker' = m
            /\ Written("set", g, n, val, w,
                       LogChange(db, thresholds_history, n, old[n], val, m.id, g, TRUE), 0, 0)

\* responses to the request with models=genai: only type.ai_generated, at 0.25,
\* 0.60 and 0.75, or no score at all
AIOnlyDocs ==
    {EmptyMap} \cup
    {MkDocFrom(EmptyMap, <<[kind |-> "leaf", cat |-> "type", field |-> "ai_generated",
                            leaf |-> Float64(v)]>>, 1) : v \in {75, 180, 225}}

\* AnalyseImageURLAIOnly(guildID, imageURL)
AnalyseImageURLAIOnly ==
    \E g \in Guilds \cup {""}, doc \in AIOnlyDocs, apiOk \in BOOLEAN :
        LET t == GetGuildThresholds(db, thresholds_guild, thresholds, g, TRUE, TRUE)
            a == AnalyseResult(doc, t["NuditySuggestive"], t["NudityExplicit"],
                               t["Offensive"], t["AIGenerated"])
        IN /\ analysis' =
                 IF ~apiOk
                 THEN [done |-> TRUE, mode |-> "ai", err |-> "api", guild |-> g, readFailed |-> FALSE]
                 ELSE [done |-> TRUE, mode |-> "ai", err |-> NoErr, guild |-> g, readFailed |-> FALSE,
                       Allowed |-> a.Allowed, Reasons |-> a.Reasons, Scores |-> a.Scores,
                       MediaURI |-> a.MediaURI, thresholds |-> t]
           /\ out' = doc
           /\ thr' = t
           /\ UNCHANGED storeVars
           /\ UNCHANGED historyVars
           /\ UNCHANGED permVars
           /\ UNCHANGED <<invoker, calls>>

AIOnlyNext == HandleSetAccepted \/ AnalyseImageURLAIOnly

SpecAIOnly == Init /\ [][AIOnlyNext]_vars

\* C21: the verdict of an AI-only analysis is Allowed exactly when the AI score
\* is below the AIGenerated threshold resolved for the guild, whatever the
\* guild's other three thresholds are.
C21_AIOnlyVerdict ==
    (analysis.done /\ "mode" \in DOMAIN analysis /\ analysis.mode = "ai" /\ analysis.err = NoErr) =>
        (analysis.Allowed <=> analysis.Scores.AIGenerated < analysis.thresholds["AIGenerated"])

(* ======================= a guild that never set a threshold ======================= *)

\* analyses next to guild sets and global Set calls
FallbackNext == StoreSet \/ HandleSet \/ AnalyseImageURL

SpecFallback == Init /\ [][FallbackNext]_vars

\* no row of the guild table belongs to the guild (rows are never deleted, so
\* this is a guild for which no set or reset ever wrote)
NeverSet(g) == \A n \in Names : <<g, n>> \notin DOMAIN thresholds_guild

\* C22 as stated: for a guild that never had a threshold set, GetGuildThresholds
\* returns the compiled defaults 0.75, 0.25, 0.25, 0.60.
C22_NeverSetDefaults ==
    \A g \in Guilds : NeverSet(g) =>
        GetGuildThresholds(db, thresholds_guild, thresholds, g, TRUE, TRUE)
           = [NuditySuggestive |-> 225, NudityExplicit |-> 75, Offensive |-> 75, AIGenerated |-> 180]

\* C22 amended: for a guild that never had a threshold set, GetGuildThresholds
\* returns for each name the row of the global table when there is one and its
\* query succeeds, and the compiled default otherwise; so exactly the compiled
\* defaults when there is no database or the global table is empty.
C22_NeverSetGlobalThenDefaults ==
    \A g \in Guilds : NeverSet(g) =>
        /\ \A guildOk \in BOOLEAN, globOk \in BOOLEAN :
              GetGuildThresholds(db, thresholds_guild, thresholds, g, guildOk, globOk)
                 = [n \in Names |-> IF db /\ globOk /\ n \in DOMAIN thresholds
                                    THEN thresholds[n] ELSE Defaults[n]]
        /\ (~db \/ thresholds = EmptyTable) =>
              GetGuildThresholds(db, thresholds_guild, thresholds, g, TRUE, TRUE)
                 = [NuditySuggestive |-> 225, NudityExplicit |-> 75, Offensive |-> 75, AIGenerated |-> 180]

\* C22 witness: an analysis for a guild without rows used the global row of a
\* name and the defaults of the others
C22_Witness ==
    /\ db /\ analysis.done /\ analysis.err = NoErr /\ ~analysis.readFailed
    /\ analysis.guild \in Guilds /\ NeverSet(analysis.guild)
    /\ \E n \in Names :
          /\ n \in DOMAIN thresholds /\ thresholds[n] # Defaults[n]
          /\ analysis.thresholds[n] = thresholds[n]
          /\ \A k \in Names \ {n} : analysis.thresholds[k] = Defaults[k]

(* ======================= resolution in a direct message ======================= *)

\* C23: for the empty guild id GetGuildThresholds returns the compiled defaults
\* and issues no query: whatever rows the guild table (even rows with an empty
\* guild id) and the global table hold and whether queries would succeed; an
\* analysis in a direct message uses the compiled defaults.
C23_DirectMessageDefaults ==
    /\ GetGuildThresholdsQueries(db, "") = 0
    /\ \A guildOk \in BOOLEAN, globOk \in BOOLEAN,
          tg \in {thresholds_guild, Upsert(thresholds_guild, <<"", "Offensive">>, 2 * 75)} :
          GetGuildThresholds(db, tg, thresholds, "", guildOk, globOk) = Defaults
    /\ (analysis.done /\ analysis.guild = "" /\ analysis.err = NoErr) =>
          /\ analysis.thresholds = Defaults
          /\ analysis.lookups = 0
          /\ ~analysis.readFailed

\* C23 witness: with a database holding a global row and a guild row that
\* differ from the defaults, an analysis in a direct message used the defaults
C23_Witness ==
    /\ db /\ analysis.done /\ analysis.guild = "" /\ analysis.err = NoErr
    /\ \E n \in DOMAIN thresholds : thresholds[n] # Defaults[n]
    /\ \E key \in DOMAIN thresholds_guild : thresholds_guild[key] # Defaults[key[2]]
    /\ analysis.thresholds = Defaults

(* ======================= null columns of the audit table ======================= *)

\* a column of a row is NULL when the row has no such field; LogChange binds
\* its float64 and string arguments as they are, so it writes all five columns
IsNull(row, col) == col \notin DOMAIN row

\* the rows a step appended to thresholds_history
NewRows == {k \in 1..Len(thresholds_history') : k > Len(thresholds_history)}

\* C24: in every audit record a command writes, old_value is NULL when the
\* guild had no row for the name before the change, user_id is NULL or a
\* non-empty actor id, and guild_id is NULL or a non-empty guild id.
C24_NullFields ==
    [][\A k \in NewRows :
          LET r == thresholds_history'[k] IN
          /\ (IsNull(r, "guild_id") \/ <<r.guild_id, r.name>> \notin DOMAIN thresholds_guild)
                => IsNull(r, "old_value")
          /\ IsNull(r, "user_id") \/ r.user_id # ""
          /\ IsNull(r, "guild_id") \/ r.guild_id # ""]_vars

(* ======================= concurrent whitelist calls ======================= *)

\* the JSON document SaveToFile marshals from the in-memory whitelist
Marshal(groles) == [g \in DOMAIN groles |-> SortRoles(groles[g], 1)]

\* a goroutine enters AddRole(guildID, roleID) or RemoveRole(guildID, roleID)
PermCall(p) ==
    /\ calls[p].op = "none"
    /\ \E op \in {"AddRole", "RemoveRole"}, g \in Guilds, r \in Roles :
          calls' = [calls EXCEPT ![p] = [op |-> op, guildID |-> g, roleID |-> r, pc |-> "update",
                                         ret |-> FALSE, data |-> EmptyTable]]
    /\ UNCHANGED storeVars
    /\ UNCHANGED analysisVars
    /\ UNCHANGED historyVars
    /\ UNCHANGED permVars
    /\ UNCHANGED invoker

\* the goroutine runs up to its next shared access:
\*   update: with a database the one statement of the call; else the change of
\*           ps.guildRoles under ps.mu.Lock
\*   copy:   SaveToFile copies ps.guildRoles under ps.mu.RLock
\*   write:  os.WriteFile(tmp, b)
\*   rename: os.Rename(tmp, path), which fails when tmp does not exist
PermStep(p) ==
    LET c == calls[p]
        at(pc) == [calls EXCEPT ![p] = [c EXCEPT !.pc = pc]]
        return == [calls EXCEPT ![p] = [c EXCEPT !.pc = "done", !.ret = TRUE]]
    IN /\ c.op \in {"AddRole", "RemoveRole"} /\ ~c.ret
       /\ CASE c.pc = "update" ->
                 \E ok \in OkChoices :
                   LET st == IF c.op = "AddRole"
                             THEN AddRole(db, permissions, guildRoles, file, c.guildID, c.roleID, FALSE)
                             ELSE RemoveRole(db, permissions, guildRoles, file, c.guildID, c.roleID, FALSE)
                       stDB == IF c.op = "AddRole"
                               THEN AddRole(db, permissions, guildRoles, file, c.guildID, c.roleID, ok)
                               ELSE RemoveRole(db, permissions, guildRoles, file, c.guildID, c.roleID, ok)
                   IN /\ permissions' = stDB.permissions
                      /\ guildRoles' = st.guildRoles
                      /\ nfaults' = nfaults + B2N(ok)
                      /\ calls' = (IF db THEN return ELSE at("copy"))
                      /\ UNCHANGED <<file, tmpfile>>
            [] c.pc = "copy" ->
                 /\ calls' = [calls EXCEPT ![p] = [c EXCEPT !.pc = "write", !.data = Marshal(guildRoles)]]
                 /\ UNCHANGED <<permissions, guildRoles, file, tmpfile, nfaults>>
            [] c.pc = "write" ->
                 \E ok \in FileOks :
                   /\ tmpfile' = (IF ok THEN [exists |-> TRUE, data |-> c.data] ELSE tmpfile)
                   /\ nfaults' = nfaults + B2N(ok)
                   /\ calls' = (IF ok THEN at("rename") ELSE return)
                   /\ UNCHANGED <<permissions, guildRoles, file>>
            [] c.pc = "rename" ->
                 /\ file' = (IF tmpfile.exists THEN tmpfile.data ELSE file)
                 /\ tmpfile' = NoFile
                 /\ calls' = return
                 /\ UNCHANGED <<permissions, guildRoles, nfaults>>
       /\ UNCHANGED <<db, mem, thresholds, thresholds_guild, thresholds_history, last, prev, ncmds>>
       /\ UNCHANGED analysisVars
       /\ UNCHANGED historyVars
       /\ UNCHANGED <<perm, invoker>>

FileNext == \E p \in Procs : PermCall(p) \/ PermStep(p)

SpecFile == Init /\ [][FileNext]_vars

\* C25: in JSON-fallback mode, once every AddRole and RemoveRole call that was
\* started has returned and no file operation was made to fail, the whitelist
\* in the file is the in-memory whitelist.
C25_FileMatchesMemory ==
    (~db /\ nfaults = 0 /\ \A p \in Procs : calls[p].op = "none" \/ calls[p].ret) =>
        file = Marshal(guildRoles)

(* ======================= concurrent set and reset commands ======================= *)

\* a goroutine starts handling /thresholds set or /thresholds reset <name> of an
\* administrator, the name and the value accepted
CmdCall(p) ==
    /\ calls[p].op = "none"
    /\ \E g \in Guilds, n \in ConcNames :
          \/ \E v \in ConcValues :
                calls' = [calls EXCEPT ![p] = [op |-> "set", guildID |-> g, name |-> n, value |-> v,
                                               pc |-> "read", ret |-> FALSE, old |-> 0]]
          \/ calls' = [calls EXCEPT ![p] = [op |-> "reset", guildID |-> g, name |-> n,
                                            value |-> defaultThresholdValue(n),
                                            pc |-> "read", ret |-> FALSE, old |-> 0]]
    /\ UNCHANGED storeVars
    /\ UNCHANGED analysisVars
    /\ UNCHANGED historyVars
    /\ UNCHANGED permVars
    /\ UNCHANGED invoker

\* the handler runs its next store call, every statement succeeding:
\*   read:  GetGuildThresholds, whose value of the name is kept as the old value
\*   write: SetGuild (ResetOneGuild for a reset)
\*   log:   LogChange with the old value read at the start
CmdStep(p) ==
    LET c == calls[p] IN
    /\ c.op \in {"set", "reset"} /\ ~c.ret
    /\ CASE c.pc = "read" ->
              /\ calls' = [calls EXCEPT ![p] =
                    [c EXCEPT !.pc = "write",
                              !.old = GetGuildThresholds(db, thresholds_guild, thresholds,
                                                         c.guildID, TRUE, TRUE)[c.name]]]
              /\ UNCHANGED <<thresholds_guild, thresholds_history, created_at>>
         [] c.pc = "write" ->
              /\ thresholds_guild' =
                    (IF c.op = "set"
                     THEN SetGuild(db, thresholds_guild, c.guildID, c.name, c.value, "none").tbl
                     ELSE ResetOneGuild(db, thresholds_guild, c.guildID, c.name, "none").tbl)
              /\ calls' = [calls EXCEPT ![p] = [c EXCEPT !.pc = "log"]]
              /\ UNCHANGED <<thresholds_history, created_at>>
         [] c.pc = "log" ->
              /\ thresholds_history' =
                    LogChange(db, thresholds_history, c.name, c.old, c.value, "u1", c.guildID, TRUE).tbl
              /\ created_at' = Stamp(created_at, Len(thresholds_history'), now)
              /\ calls' = [calls EXCEPT ![p] = [c EXCEPT !.pc = "done", !.ret = TRUE]]
              /\ UNCHANGED thresholds_guild
    /\ UNCHANGED <<db, mem, thresholds, last, prev, ncmds, nfaults, now, changes>>
    /\ UNCHANGED analysisVars
    /\ UNCHANGED permVars
    /\ UNCHANGED invoker

ChainNext == \E p \in Procs : CmdCall(p) \/ CmdStep(p)

SpecChain == Init /\ [][ChainNext]_vars

\* the audit rows of the same guild and name inserted before row k
Earlier(k) ==
    {j \in 1..(k - 1) : /\ thresholds_history[j].guild_id = thresholds_history[k].guild_id
                        /\ thresholds_history[j].name = thresholds_history[k].name}

\* C26: in the audit table, the old_value of every row that has an earlier row
\* of the same guild and name equals the new_value of the latest such row,
\* however the set and reset commands run, one after another or interleaved.
C26_AuditChain ==
    \A k \in 1..Len(thresholds_history) :
        Earlier(k) # {} =>
            thresholds_history[k].old_value
               = thresholds_history[CHOOSE j \in Earlier(k) : \A i \in Earlier(k) : i <= j].new_value

(* ======================= audit completeness ======================= *)

\* the guild-table rows whose stored value a step has changed (a row inserted,
\* or an existing row holding another value)
ChangedRows ==
    {k \in DOMAIN thresholds_guild' :
        k \notin DOMAIN thresholds_guild \/ thresholds_guild[k] # thresholds_guild'[k]}

\* C27: when a command has finished, every guild-table row whose stored value it
\* changed has an audit row of that guild and name with that new value written
\* by the command, as long as no audit insert of the command failed; this
\* includes a reset all whose four writes fail partway through.
C27_ChangeAudited ==
    [][(ncmds' = ncmds + 1 /\ last'.logFails = 0) =>
          \A k \in ChangedRows :
             \E j \in NewRows :
                /\ ~IsNull(thresholds_history'[j], "guild_id")
                /\ thresholds_history'[j].guild_id = k[1]
                /\ thresholds_history'[j].name = k[2]
                /\ thresholds_history'[j].new_value = thresholds_guild'[k]]_vars

(* ======================= tenant isolation ======================= *)

\* C28: a /thresholds set, reset <name> or reset all of guild A, whatever its
\* outcome, leaves the global thresholds table as it was and leaves what
\* GetGuildThresholds returns for every other guild B as it was, for each
\* outcome of B's two queries.
C28_TenantIsolation ==
    [][(ncmds' = ncmds + 1 /\ last'.cmd \in {"set", "reset", "resetall"}) =>
          /\ thresholds' = thresholds
          /\ \A B \in Guilds \ {last'.guild} : \A guildOk, globOk \in BOOLEAN :
                GetGuildThresholds(db, thresholds_guild', thresholds', B, guildOk, globOk)
                   = GetGuildThresholds(db, thresholds_guild, thresholds, B, guildOk, globOk)]_vars

\* C28 witness: a set of guild A has stored a value while another guild B
\* holds an override of the same name
C28_Witness ==
    /\ db /\ last.cmd = "set" /\ last.resp = "ok"
    /\ prev.cmd = "set" /\ prev.resp = "ok" /\ prev.guild # last.guild /\ prev.name = last.name
    /\ thresholds_guild[<<last.guild, last.name>>] = last.value
    /\ thresholds_guild[<<prev.guild, prev.name>>] # Defaults[prev.name]

(* ======================= the whitelist in JSON-fallback mode ======================= *)

\* the characters of a role entry of the file
RoleChars(r) ==
    CASE r = "r1" -> <<"r", "1">>
      [] r = "r2" -> <<"r", "2">>
      [] r = " " -> <<" ">>
      [] OTHER -> <<>>

\* role lists a guild can have in the file found on disk: written by SaveToFile
\* or by hand (empty, blank entries, unsorted, repeated entries)
FileLists == {<<>>, <<" ">>, <<"r1">>, <<"r2", "r1">>, <<"r1", " ", "r1">>}
FileDocs == UNION {[gs -> FileLists] : gs \in SUBSET Guilds}

\* outcomes of os.ReadFile and json.Unmarshal
ReadErrs == {"none", "notexist", "io", "syntax"}

\* LoadFromFile: nothing with a database; a missing file is no error and an
\* unreadable or malformed one is an error, all leaving the map as it is; else
\* the map is rebuilt from the document, blank entries skipped and guilds left
\* with no role dropped
LoadFromFile(hasDB, groles, doc, readErr) ==
    IF hasDB THEN [guildRoles |-> groles, err |-> NoErr]
    ELSE IF readErr = "notexist" THEN [guildRoles |-> groles, err |-> NoErr]
    ELSE IF readErr # "none" THEN [guildRoles |-> groles, err |-> readErr]
    ELSE LET set(g) == {r \in Range(doc[g]) : TrimSpace(RoleChars(r)) # <<>>}
         IN [guildRoles |-> [g \in {h \in DOMAIN doc : set(h) # {}} |-> set(g)], err |-> NoErr]

\* a store call has returned; perm records the call and what ListRoles returns
\* for its guild afterwards
StoreReturned(op, g, r, st, faults) ==
    /\ permissions' = st.permissions
    /\ guildRoles' = st.guildRoles
    /\ file' = st.file
    /\ perm' = [done |-> TRUE, op |-> op, guild |-> g, role |-> r,
                list |-> ListRoles(db, st.permissions, st.guildRoles, g, TRUE, FALSE)]
    /\ nfaults' = nfaults + faults
    /\ UNCHANGED <<db, mem, thresholds, thresholds_guild, thresholds_history, last, prev, ncmds>>
    /\ UNCHANGED analysisVars
    /\ UNCHANGED historyVars
    /\ UNCHANGED <<tmpfile, invoker, calls>>

CallAddRole ==
    \E g \in Guilds, r \in Roles, ok \in FileOks :
        StoreReturned("AddRole", g, r, AddRole(db, permissions, guildRoles, file, g, r, ok), B2N(ok))

CallRemoveRole ==
    \E g \in Guilds, r \in Roles, ok \in FileOks :
        StoreReturned("RemoveRole", g, r, RemoveRole(db, permissions, guildRoles, file, g, r, ok), B2N(ok))

\* LoadFromFile reads the file at ps.filePath: the one SaveToFile left, or a
\* document put there since; a read that fails tells nothing about the file
CallLoadFromFile ==
    \E readErr \in ReadErrs :
      \E doc \in (IF readErr = "none" THEN FileDocs \cup {file} ELSE {file}) :
        StoreReturned("LoadFromFile", "", "",
                      [permissions |-> permissions,
                       guildRoles |-> LoadFromFile(db, guildRoles, doc, readErr).guildRoles,
                       file |-> doc], 0)

WhitelistNext == CallAddRole \/ CallRemoveRole \/ CallLoadFromFile

SpecWhitelist == Init /\ [][WhitelistNext]_vars

\* the position of a role in sort.Strings order
RoleIndex(r) == CHOOSE k \in 1..Len(RoleOrder) : RoleOrder[k] = r

\* what ListRoles returns for a guild in the state
Listed(groles, g) == ListRoles(FALSE, {}, groles, g, TRUE, FALSE)

\* C29: without a database, after any sequence of AddRole, RemoveRole and
\* LoadFromFile calls: no guild of the in-memory whitelist has an empty role
\* set; ListRoles returns exactly the guild's whitelisted roles, in strictly
\* increasing order; an AddRole of a role already whitelisted leaves the
\* whitelist as it was; after RemoveRole(g, r) ListRoles(g) omits r and the
\* whitelist of every other guild is as before.
C29_WhitelistInvariants ==
    /\ [](~db => /\ \A g \in DOMAIN guildRoles : guildRoles[g] # {}
                 /\ \A g \in Guilds :
                       LET l == Listed(guildRoles, g) IN
                       /\ Range(l) = Whitelist(g)
                       /\ \A a, b \in 1..Len(l) : a < b => RoleIndex(l[a]) < RoleIndex(l[b]))
    /\ [][(~db /\ perm'.done /\ perm' # perm) =>
             /\ (perm'.op = "AddRole" /\ perm'.role \in Whitelist(perm'.guild)) =>
                   guildRoles' = guildRoles
             /\ perm'.op = "AddRole" =>
                   AddRole(db, permissions', guildRoles', file', perm'.guild, perm'.role, TRUE).guildRoles
                      = guildRoles'
             /\ perm'.op = "RemoveRole" =>
                   /\ perm'.role \notin Range(Listed(guildRoles', perm'.guild))
                   /\ \A h \in Guilds \ {perm'.guild} :
                         /\ (h \in DOMAIN guildRoles') = (h \in DOMAIN guildRoles)
                         /\ Listed(guildRoles', h) = Listed(guildRoles, h)]_vars

\* C29 witness: without a database RemoveRole has removed a guild's last role,
\* the guild is gone from the map and the other guild still lists two roles
C29_Witness ==
    /\ ~db /\ perm.done /\ "op" \in DOMAIN perm /\ perm.op = "RemoveRole"
    /\ perm.guild \notin DOMAIN guildRoles
    /\ \E h \in Guilds \ {perm.guild} : Len(Listed(guildRoles, h)) = 2

(* ======================= ConfigureDB ======================= *)

\* the dialects a caller may pass; database/sql has a driver registered for the
\* first two only
Dialects == {"postgres", "mysql", "sqlite"}
RegisteredDrivers == {"postgres", "mysql"}

\* ConfigureDB(dialect, dsn): sql.Open fails for a dialect with no registered
\* driver or a bad dsn, then Ping; the handle is stored in ps.db, and only then
\* is the table created.  hasDB says whether ps.db is set, fail names the step
\* that fails ("none", "open", "ping", "ddl").
ConfigureDB(hasDB, dialect, fail) ==
    IF dialect \notin RegisteredDrivers \/ fail = "open" THEN [db |-> hasDB, err |-> "open db"]
    ELSE IF fail = "ping" THEN [db |-> hasDB, err |-> "ping db"]
    ELSE IF fail = "ddl" THEN [db |-> TRUE, err |-> "create table"]
    ELSE [db |-> TRUE, err |-> NoErr]

CallConfigureDB ==
    \E dialect \in Dialects, fail \in {"none", "open", "ping", "ddl"} :
        LET r == ConfigureDB(db, dialect, fail) IN
        /\ db' = r.db
        /\ perm' = [done |-> TRUE, op |-> "ConfigureDB", guild |-> "", role |-> dialect,
                    list |-> <<>>, err |-> r.err]
        /\ UNCHANGED <<mem, thresholds, thresholds_guild, thresholds_history, last, prev, ncmds, nfaults>>
        /\ UNCHANGED analysisVars
        /\ UNCHANGED historyVars
        /\ UNCHANGED <<permissions, guildRoles, file, tmpfile, invoker, calls>>

ConfigureNext == CallConfigureDB \/ CallAddRole \/ CallRemoveRole

SpecConfigure == Init /\ [][ConfigureNext]_vars

\* C30: a ConfigureDB call that returns an error leaves the backend selection
\* as it was: a store without a database still has none, so AddRole, RemoveRole
\* and ListRoles keep using the JSON fallback and the threshold store keeps
\* seeing no database.
C30_FailedConfigureKeepsBackend ==
    [][(perm'.done /\ "err" \in DOMAIN perm' /\ perm'.err # NoErr) => db' = db]_vars

====
